---------------------------- MODULE Spec2Model ----------------------------
(***************************************************************************)
(* PingTracer--: the sampling engine of src/PingTracer--.py.               *)
(*                                                                         *)
(* PingGraph is the per-host series with its incremental statistics and    *)
(* its rolling raster, PingRunner the probe thread of one (host, round),   *)
(* PingApp the session: round scheduler, result router, pruning pass.      *)
(*                                                                         *)
(* Latencies are whole milliseconds.  The three values a sample can take   *)
(* in the source are kept apart: None (timeout), False (error) and a       *)
(* number.  In Python bool is a subclass of int, so False passes           *)
(* isinstance(v, (int, float)) and compares as 0: IsNumber says so.        *)
(* Float arithmetic is modelled exactly (as rationals, cross-multiplied).  *)
(***************************************************************************)
EXTENDS Integers, Sequences, FiniteSets, Bags, TLC

VARIABLES
    config,                   \* PingApp.config: thresholds, rate, timeout, size
    running,                  \* PingApp.running
    stop_event,               \* PingApp.stop_event (threading.Event, shared by all runners)
    scheduled_ping_after_id,  \* PingApp._scheduled_ping_after_id (0 stands for None)
    after_ticks,              \* Tk timer queue: ids of pending schedule_next_ping_round callbacks
    next_after_id,            \* Tk's after-id counter
    after_clean,              \* pending after(1000, clean_unpingable) callbacks
    after_stop,               \* pending after(5000/4000, stop_pinging) callbacks
    after_poll,               \* pending after(100/50, process_ping_results) callbacks
    ping_graphs,              \* PingApp.ping_graphs: host_ip -> PingGraph
    ping_order,               \* PingApp.ping_order
    ping_timestamps,          \* PingApp.ping_timestamps
    ping_round_index,         \* PingApp.ping_round_index
    result_queue,             \* PingApp.result_queue
    runners,                  \* live PingRunner threads (a bag)
    tracers,                  \* live do_trace_route threads (a bag), each marked once a stop overtook it
    start_button,             \* state of the Start button
    stop_button,              \* state of the Stop button
    canvas_width,             \* canvas.winfo_width() of the graphs
    canvas_height,            \* canvas.winfo_height() of the graphs
    clock,                    \* time.time(), one unit per round tick
    prov,                     \* history: for each tracked host, the runner each entry of pings came from
    clean_log,                \* history: what the last pass of clean_unpingable found and kept
    drain_log,                \* history: what the last pass of process_ping_results discarded and kept
    entries,                  \* the text of the option entries: rate, timeout, size, bad, sobad
    edits,                    \* how many times the user has typed into an option entry
    line                      \* draw_line_on_image exercised alone: its arguments and the image it leaves

vars == << config, running, stop_event, scheduled_ping_after_id, after_ticks,
           next_after_id, after_clean, after_stop, after_poll, ping_graphs, ping_order,
           ping_timestamps, ping_round_index, result_queue, runners, tracers,
           start_button, stop_button, canvas_width, canvas_height, clock, prov,
           clean_log, drain_log, entries, edits, line >>

-----------------------------------------------------------------------------
(* Bounds of the model *)

\* canvas size of the graphs while a session is modelled
SessionWidth == 2
SessionHeight == 1
\* longest series built in the single-graph specification
MaxPings == 4
\* widest canvas
MaxWidth == 3
\* tallest canvas
MaxHeight == 2

-----------------------------------------------------------------------------
(* Arithmetic helpers *)

Min(a, b) == IF a <= b THEN a ELSE b
Max(a, b) == IF a >= b THEN a ELSE b
Abs(a) == IF a >= 0 THEN a ELSE -a

\* int(n/d) for d > 0: truncation toward zero
TruncDiv(n, d) == IF n >= 0 THEN n \div d ELSE -((-n) \div d)

-----------------------------------------------------------------------------
(* Samples *)

\* ping3's None: timeout
TimeoutS == [kind |-> "None", ms |-> 0]
\* ping3's False, and PingRunner's default and exception value: error
ErrorS == [kind |-> "False", ms |-> 0]
\* a latency in ms
Ms(v) == [kind |-> "float", ms |-> v]

\* isinstance(v, (int, float)): true of numbers and of the bool False
IsNumber(v) == v.kind \in {"float", "False"}
\* the value a number compares and adds as (False is 0)
NumVal(v) == v.ms

\* float('inf') and float('-inf') of the statistics
PosInf == 1000000
NegInf == -1000000
\* stat_last_valid_ping = None
NoValue == -1

-----------------------------------------------------------------------------
(* Colors *)

GREEN == << 0, 255, 0 >>
YELLOW == << 255, 255, 0 >>
RED == << 255, 0, 0 >>
BLUE == << 0, 0, 255 >>
BLACK == << 0, 0, 0 >>

\* int(interpolate(a, b, t)) with t = num/den and a = a2/2, b = b2/2
\* (the heights h * 0.5 are halves): int(a + (b - a) * t)
interpolate(a2, b2, num, den) == TruncDiv(a2 * den + (b2 - a2) * num, 2 * den)

interpolate_color_tuple(color1, color2, num, den) ==
    << interpolate(2 * color1[1], 2 * color2[1], num, den),
       interpolate(2 * color1[2], 2 * color2[2], num, den),
       interpolate(2 * color1[3], 2 * color2[3], num, den) >>

-----------------------------------------------------------------------------
(* PIL image buffer: px[x + 1][y + 1] is the pixel of column x, row y *)

\* self.pil_image = None
NoImage == [w |-> 0, h |-> 0, px |-> << >>]

\* Image.new("RGB", (width, height), color=BLACK)
NewImage(width, height) ==
    [w |-> width, h |-> height,
     px |-> [x \in 1..width |-> [y \in 1..height |-> BLACK]]]

\* line_style taking a latency of exactly 1 ms for a sub-millisecond one
line_style_one_is_sub_ms(ping_value, h, bad_threshold, so_bad_threshold) ==
    IF ping_value.kind = "False" \/ ping_value.kind = "None"
          \/ (IsNumber(ping_value) /\ NumVal(ping_value) < 0)
    THEN [lh |-> h, col |-> BLUE]
    ELSE IF IsNumber(ping_value)
    THEN LET v == NumVal(ping_value) IN
         IF v <= 1
         THEN [lh |-> 1, col |-> GREEN]
         ELSE IF v < bad_threshold
         THEN [lh |-> Max(1, interpolate(2, h, v, bad_threshold)),
               col |-> interpolate_color_tuple(GREEN, YELLOW, v, bad_threshold)]
         ELSE IF v < so_bad_threshold
         THEN [lh |-> interpolate(h, 2 * h, v - bad_threshold,
                                  so_bad_threshold - bad_threshold),
               col |-> interpolate_color_tuple(YELLOW, RED, v - bad_threshold,
                                               so_bad_threshold - bad_threshold)]
         ELSE [lh |-> h, col |-> RED]
    ELSE [lh |-> h, col |-> BLUE]

\* the height and color draw_line_on_image chooses, before the final clamp
line_style(ping_value, h, bad_threshold, so_bad_threshold) ==
    IF ping_value.kind = "False" \/ ping_value.kind = "None"
          \/ (IsNumber(ping_value) /\ NumVal(ping_value) < 0)
    THEN [lh |-> h, col |-> BLUE]
    ELSE IF IsNumber(ping_value)
    THEN LET v == NumVal(ping_value) IN
         IF v < 1
         THEN [lh |-> 1, col |-> GREEN]
         ELSE IF v < bad_threshold
         THEN [lh |-> Max(1, interpolate(2, h, v, bad_threshold)),
               col |-> interpolate_color_tuple(GREEN, YELLOW, v, bad_threshold)]
         ELSE IF v < so_bad_threshold
         THEN [lh |-> interpolate(h, 2 * h, v - bad_threshold,
                                  so_bad_threshold - bad_threshold),
               col |-> interpolate_color_tuple(YELLOW, RED, v - bad_threshold,
                                               so_bad_threshold - bad_threshold)]
         ELSE [lh |-> h, col |-> RED]
    ELSE [lh |-> h, col |-> BLUE]

\* the interpolated height used as it is, without the final clamp
clamp_height_absent(lh, h) == lh

\* lh = min(h, max(1, int(lh)))
clamp_height(lh, h) == Min(h, Max(1, lh))

\* draw_line_on_image(x, ping_value, pil_img): the image afterwards
draw_line_on_image(x, ping_value, pil_img, cfg) ==
    IF pil_img = NoImage THEN pil_img
    ELSE IF pil_img.h <= 0 \/ ~(0 <= x /\ x < pil_img.w) THEN pil_img
    ELSE LET h == pil_img.h
             st == line_style(ping_value, h, cfg.bad_threshold, cfg.so_bad_threshold)
             lh == clamp_height(st.lh, h)
             y0 == h - lh
             y1 == h - 1
         IN [pil_img EXCEPT !.px[x + 1] =
                [y \in 1..h |-> IF y0 <= y - 1 /\ y - 1 <= y1 THEN st.col ELSE @[y]]]

-----------------------------------------------------------------------------
(* PingGraph *)

\* what the info label shows: the statistics, or the hover text of one sample
StatsLabel == [mode |-> "stats", index |-> -1, value |-> "", time |-> -1]

\* PingGraph.__init__
NewPingGraph ==
    [pings |-> << >>,
     stat_count |-> 0,
     stat_sum |-> 0,
     stat_min |-> PosInf,
     stat_max |-> NegInf,
     stat_loss_count |-> 0,
     stat_last_valid_ping |-> NoValue,
     stat_jitter_sum |-> 0,
     stat_jitter_count |-> 0,
     pil_image |-> NoImage,
     current_width |-> 0,
     current_height |-> 3,
     current_buffer_index |-> 0,
     info_label |-> StatsLabel]

\* _create_or_resize_buffer(width, height): [ok |-> its return value, pg |-> the graph afterwards]
create_or_resize_buffer(pg, width, height0) ==
    LET height == Max(1, height0) IN
    IF width <= 0
    THEN [ok |-> FALSE, pg |-> pg]
    ELSE [ok |-> TRUE,
          pg |-> [pg EXCEPT !.current_width = width,
                            !.current_height = height,
                            !.pil_image = NewImage(width, height)]]

\* pings[-n:] for n > 0
LastN(s, n) == IF Len(s) <= n THEN s ELSE SubSeq(s, Len(s) - n + 1, Len(s))

\* the for loop of redraw_image_buffer: visible[k] drawn at column k - 1, in order
RECURSIVE draw_visible(_, _, _, _)
draw_visible(img, visible, k, cfg) ==
    IF k > Len(visible) THEN img
    ELSE draw_visible(draw_line_on_image(k - 1, visible[k], img, cfg), visible, k + 1, cfg)

\* redraw_image_buffer() drawing the oldest samples, pings[:current_width]
redraw_image_buffer_oldest(pg, cfg) ==
    IF pg.pil_image = NoImage \/ pg.current_width <= 0 \/ pg.current_height <= 0
    THEN pg
    ELSE LET cleared == NewImage(pg.pil_image.w, pg.pil_image.h)
             visible_pings == SubSeq(pg.pings, 1, Min(Len(pg.pings), pg.current_width))
             num_visible == Len(visible_pings)
         IN [pg EXCEPT !.pil_image = draw_visible(cleared, visible_pings, 1, cfg),
                       !.current_buffer_index = num_visible]

\* redraw_image_buffer()
redraw_image_buffer(pg, cfg) ==
    IF pg.pil_image = NoImage \/ pg.current_width <= 0 \/ pg.current_height <= 0
    THEN pg
    ELSE LET cleared == NewImage(pg.pil_image.w, pg.pil_image.h)
             visible_pings == LastN(pg.pings, pg.current_width)
             num_visible == Len(visible_pings)
         IN [pg EXCEPT !.pil_image = draw_visible(cleared, visible_pings, 1, cfg),
                       !.current_buffer_index = num_visible]

\* on_resize(event) with event.width, event.height
on_resize(pg, event_width, event_height, cfg) ==
    LET new_width == event_width
        new_height == Max(1, event_height)
    IN IF (new_width = pg.current_width /\ new_height = pg.current_height
              /\ pg.pil_image # NoImage)
          \/ new_width <= 0
       THEN pg
       ELSE LET r == create_or_resize_buffer(pg, new_width, new_height)
            IN IF ~r.ok THEN pg ELSE redraw_image_buffer(r.pg, cfg)

\* update_statistics with the last valid ping forgotten at every loss
update_statistics_reset_on_loss(pg, ping_value) ==
    IF IsNumber(ping_value) /\ NumVal(ping_value) >= 0
    THEN LET v == NumVal(ping_value)
             had == pg.stat_last_valid_ping # NoValue
         IN [pg EXCEPT !.stat_count = @ + 1,
                       !.stat_sum = @ + v,
                       !.stat_min = Min(@, v),
                       !.stat_max = Max(@, v),
                       !.stat_jitter_sum =
                           IF had THEN @ + Abs(v - pg.stat_last_valid_ping) ELSE @,
                       !.stat_jitter_count = IF had THEN @ + 1 ELSE @,
                       !.stat_last_valid_ping = v]
    ELSE [pg EXCEPT !.stat_loss_count = @ + 1,
                    !.stat_last_valid_ping = NoValue]

\* the statistics update of add_ping, after the append
update_statistics(pg, ping_value) ==
    IF IsNumber(ping_value) /\ NumVal(ping_value) >= 0
    THEN LET v == NumVal(ping_value)
             had == pg.stat_last_valid_ping # NoValue
         IN [pg EXCEPT !.stat_count = @ + 1,
                       !.stat_sum = @ + v,
                       !.stat_min = Min(@, v),
                       !.stat_max = Max(@, v),
                       !.stat_jitter_sum =
                           IF had THEN @ + Abs(v - pg.stat_last_valid_ping) ELSE @,
                       !.stat_jitter_count = IF had THEN @ + 1 ELSE @,
                       !.stat_last_valid_ping = v]
    ELSE [pg EXCEPT !.stat_loss_count = @ + 1]

\* crop((1, 0, W, H)) pasted at (0, 0), then the last column cleared
shift_left(img) ==
    [img EXCEPT !.px =
        [x \in 1..img.w |->
            IF x < img.w THEN img.px[x + 1]
            ELSE [y \in 1..img.h |-> BLACK]]]

\* the drawing logic of add_ping, once the buffer matches the canvas
draw_new_ping(pg, ping_value, cfg) ==
    LET num_pings == Len(pg.pings) IN
    IF pg.pil_image = NoImage THEN pg
    ELSE IF num_pings <= pg.current_width
    THEN [pg EXCEPT !.pil_image = draw_line_on_image(num_pings - 1, ping_value, @, cfg),
                    !.current_buffer_index = num_pings,
                    !.info_label = StatsLabel]
    ELSE [pg EXCEPT !.pil_image =
                       draw_line_on_image(pg.current_width - 1, ping_value,
                                          shift_left(@), cfg),
                    !.info_label = StatsLabel]

\* add_ping(ping_value), the canvas being canvas_w x canvas_h
add_ping(pg, ping_value, canvas_w, canvas_h, cfg) ==
    LET appended == [pg EXCEPT !.pings = Append(@, ping_value)]
        counted == update_statistics(appended, ping_value)
    IN IF counted.pil_image = NoImage \/ counted.current_width # canvas_w
          \/ counted.current_height # canvas_h
       THEN LET r == create_or_resize_buffer(counted, canvas_w, Max(1, canvas_h))
            IN IF ~r.ok THEN counted
               ELSE draw_new_ping(redraw_image_buffer(r.pg, cfg), ping_value, cfg)
       ELSE draw_new_ping(counted, ping_value, cfg)

\* target_index with the full-canvas offset one too far
target_index_off_by_one(num_pings, canvas_w, x) ==
    IF num_pings < canvas_w
    THEN IF 0 <= x /\ x < num_pings THEN x ELSE -1
    ELSE IF 0 <= x /\ x < canvas_w THEN (num_pings - canvas_w) + x + 1 ELSE -1

\* the series index on_mouse_move computes for pointer column x (-1: none)
target_index(num_pings, canvas_w, x) ==
    IF num_pings < canvas_w
    THEN IF 0 <= x /\ x < num_pings THEN x ELSE -1
    ELSE IF 0 <= x /\ x < canvas_w THEN (num_pings - canvas_w) + x ELSE -1

\* the hover text of on_mouse_move for a valid index
hover_label(pg, idx, timestamps) ==
    LET value == pg.pings[idx + 1] IN
    [mode |-> "hover",
     index |-> idx,
     value |-> IF IsNumber(value) /\ NumVal(value) >= 0
               THEN "ms" ELSE "Timeout/Error",
     time |-> IF idx < Len(timestamps) THEN timestamps[idx + 1] ELSE -1]

\* on_mouse_move(event) with event.x = x
on_mouse_move(pg, x, canvas_w, timestamps) ==
    IF canvas_w <= 0 THEN pg
    ELSE IF Len(pg.pings) = 0 THEN pg
    ELSE LET num_pings == Len(pg.pings)
             idx == target_index(num_pings, canvas_w, x)
         IN IF 0 <= idx /\ idx < num_pings
            THEN [pg EXCEPT !.info_label = hover_label(pg, idx, timestamps)]
            ELSE [pg EXCEPT !.info_label = StatsLabel]

\* on_mouse_leave(event), and the hover timer's update_info
on_mouse_leave(pg) == [pg EXCEPT !.info_label = StatsLabel]

\* round_tenths truncating instead of rounding
round_tenths_truncating(num, den) == (10 * num) \div den

\* round(num/den, 1) in tenths, for num, den >= 0, den > 0: nearest, ties to even
round_tenths(num, den) ==
    LET q == (10 * num) \div den
        r2 == 2 * ((10 * num) % den)
    IN IF r2 < den THEN q
       ELSE IF r2 > den THEN q + 1
       ELSE IF q % 2 = 0 THEN q ELSE q + 1

\* loss_percent of get_info_text, in tenths of a percent:
\* round((stat_loss_count / total_pings) * 100, 1) if total_pings > 0 else 0
loss_percent(pg) ==
    LET total_pings == pg.stat_count + pg.stat_loss_count IN
    IF total_pings > 0
    THEN round_tenths(pg.stat_loss_count * 100, total_pings)
    ELSE 0

\* round(num/den, 2) in hundredths, for num, den >= 0, den > 0: nearest, ties to even
round_hundredths(num, den) ==
    LET q == (100 * num) \div den
        r2 == 2 * ((100 * num) % den)
    IN IF r2 < den THEN q
       ELSE IF r2 > den THEN q + 1
       ELSE IF q % 2 = 0 THEN q ELSE q + 1

\* a field of the statistics text: a number, the text "N/A", or not in the text
Shown(v) == [kind |-> "number", val |-> v]
NA == [kind |-> "N/A", val |-> 0]
Absent == [kind |-> "absent", val |-> 0]

\* the fields get_info_text puts into the text when there are successes
stats_with_successes(pg, jitter) ==
    LET last_val == IF pg.pings # << >> THEN pg.pings[Len(pg.pings)] ELSE TimeoutS
    IN [min |-> IF pg.stat_min # PosInf THEN Shown(pg.stat_min) ELSE NA,
        max |-> IF pg.stat_max # NegInf THEN Shown(pg.stat_max) ELSE NA,
        avg |-> Shown(round_hundredths(pg.stat_sum, pg.stat_count)),
        last |-> IF IsNumber(last_val) /\ NumVal(last_val) >= 0
                 THEN Shown(NumVal(last_val)) ELSE NA,
        loss |-> Shown(loss_percent(pg)),
        jitter |-> jitter,
        attempts |-> Absent]

\* get_info_text giving N/A for the jitter while no jitter value was counted
get_info_text_na_jitter(pg) ==
    IF pg.stat_count > 0
    THEN stats_with_successes(pg,
             IF pg.stat_jitter_count > 0
             THEN Shown(round_hundredths(pg.stat_jitter_sum, pg.stat_jitter_count))
             ELSE NA)
    ELSE [min |-> Absent, max |-> Absent, avg |-> Absent, last |-> Absent,
          loss |-> Shown(loss_percent(pg)), jitter |-> Absent,
          attempts |-> Shown(pg.stat_count + pg.stat_loss_count)]

\* the statistics of get_info_text(): min, max and last in ms, avg and jitter
\* in hundredths of a ms, loss in tenths of a percent
get_info_text(pg) ==
    IF pg.stat_count > 0
    THEN stats_with_successes(pg,
             Shown(IF pg.stat_jitter_count > 0
                   THEN round_hundredths(pg.stat_jitter_sum, pg.stat_jitter_count)
                   ELSE 0))
    ELSE [min |-> Absent, max |-> Absent, avg |-> Absent, last |-> Absent,
          loss |-> Shown(loss_percent(pg)), jitter |-> Absent,
          attempts |-> Shown(pg.stat_count + pg.stat_loss_count)]

-----------------------------------------------------------------------------
(* The session after PingApp.__init__ *)

\* Config's defaults
DefaultBad == 100
DefaultSoBad == 200
\* ping_rate is counted in hundredths of a ping per second and ping_timeout in
\* hundredths of a second; ping_size is in bytes, the thresholds in milliseconds
DefaultConfig ==
    [ping_rate |-> 100, ping_timeout |-> 100, ping_size |-> 1,
     bad_threshold |-> DefaultBad, so_bad_threshold |-> DefaultSoBad]

\* float('nan'): a number that every comparison answers False for
NaN == -999999
Lt(x, y) == x # NaN /\ y # NaN /\ x < y
Le(x, y) == x # NaN /\ y # NaN /\ x <= y
Gt(x, y) == Lt(y, x)
Ge(x, y) == Le(y, x)
Plus(x, y) == IF x = NaN \/ y = NaN THEN NaN ELSE x + y

\* the text of an entry: an integer numeral ("100"), a numeral with a
\* fraction or an exponent ("100.0"), "nan", or anything that is no number
IntText(n) == [kind |-> "int", val |-> n]
FloatText(x) == [kind |-> "float", val |-> x]
NanText == [kind |-> "nan", val |-> 0]
JunkText == [kind |-> "junk", val |-> 0]

\* str() of a float, as float() reads it back
str_float(x) == IF x = NaN THEN NanText ELSE FloatText(x)
\* str() of an int
str_int(n) == IntText(n)
\* str() of a threshold of the configuration, an int from the command line or
\* a float from an entry: a numeral that float() reads back as the same number
str_threshold(x) == IF x = NaN THEN NanText ELSE FloatText(x)
\* float(text) raises ValueError
float_fails(t) == t.kind = "junk"
\* float(text)
float_of(t) == IF t.kind = "nan" THEN NaN ELSE t.val
\* int(text) raises ValueError: int() reads integer numerals only
int_fails(t) == t.kind # "int"
\* int(text)
int_of(t) == t.val

\* the bounds _read_settings and update_rate_label hold the settings to
MinRate == 1
MaxRate == 5000
MinTimeout == 10
MaxTimeout == 1000
MinSize == 0
MaxSize == 1400
MinBad == 1
MaxThreshold == 5000
SoBadMargin == 50

\* build_options_frame(): every option entry starts as str() of its setting;
\* the thresholds come from the command line as ints
options_of(c) ==
    [rate |-> str_float(c.ping_rate), timeout |-> str_float(c.ping_timeout),
     size |-> str_int(c.ping_size), bad |-> str_int(c.bad_threshold),
     sobad |-> str_int(c.so_bad_threshold)]

\* a blank image for draw_line_on_image exercised alone
NoLine == [value |-> TimeoutS, drawn |-> FALSE, img |-> NoImage]

NoGraphs == [h \in {} |-> NewPingGraph]

\* no pass of process_ping_results has found a tuple
NoDrainLog == [ran |-> FALSE, discarded |-> 0, kept_after |-> 0]

\* no pass of clean_unpingable has run
NoCleanLog == [ran |-> FALSE, before |-> [h \in {} |-> << 0, 0 >>], after |-> {}]

Init ==
    /\ config = DefaultConfig
    /\ running = FALSE
    /\ stop_event = FALSE
    /\ scheduled_ping_after_id = 0
    /\ after_ticks = {}
    /\ next_after_id = 1
    /\ after_clean = 0
    /\ after_stop = 0
    /\ after_poll = 1
    /\ ping_graphs = NoGraphs
    /\ ping_order = << >>
    /\ ping_timestamps = << >>
    /\ ping_round_index = 0
    /\ result_queue = << >>
    /\ runners = EmptyBag
    /\ tracers = EmptyBag
    /\ start_button = "normal"
    /\ stop_button = "disabled"    \* its frame is not packed before the first start
    /\ canvas_width = SessionWidth
    /\ canvas_height = SessionHeight
    /\ clock = 0
    /\ prov = [h \in {} |-> << >>]
    /\ clean_log = NoCleanLog
    /\ drain_log = NoDrainLog
    /\ entries = options_of(config)
    /\ edits = 0
    /\ line = NoLine

app_vars == << config, running, stop_event, scheduled_ping_after_id, after_ticks,
               next_after_id, after_clean, after_stop, after_poll, ping_order,
               ping_timestamps, ping_round_index, result_queue, runners, tracers,
               start_button, stop_button, clock, prov, clean_log, drain_log,
               entries, edits, line >>

-----------------------------------------------------------------------------
(* The session: PingApp's handlers as functions of the application state.  *)
(* Every handler runs on the Tk main thread, one at a time; PingRunner     *)
(* threads run beside it and meet it at stop_event and result_queue.       *)

\* most round ticks in a behaviour
MaxClock == 2
\* most route discoveries in flight at once
MaxTracers == 1
\* most deferred stop_pinging callbacks pending at once
MaxDeferredStops == 1
\* most PingRunner threads alive at once
MaxRunners == 2
\* how far past MinAttempts the recorded results of a host go when the
\* pruning pass is followed
MaxPruneExtra == 1

\* a hop of the route without an address: [None]
NoAddr == ""
\* what route discovery returns: nothing (or an exception), or hops
HopResults == { << >>, << "h1", "h2" >>, << NoAddr, "h1" >> }
\* what a probe returns: ping3's None, False (also any exception), or a latency
PingOutcomes == { TimeoutS, ErrorS, Ms(10) }

\* round indices whose tick requests a pruning pass: multiples of this
CleanEvery == 100
\* ... above this round index
CleanAfterRound == 10
\* attempts a host must exceed, with no success, to be pruned
MinAttempts == 10

\* the application state as one record
App ==
    [config |-> config, running |-> running, stop_event |-> stop_event,
     scheduled_ping_after_id |-> scheduled_ping_after_id,
     after_ticks |-> after_ticks, next_after_id |-> next_after_id,
     after_clean |-> after_clean, after_stop |-> after_stop,
     after_poll |-> after_poll,
     ping_graphs |-> ping_graphs, ping_order |-> ping_order,
     ping_timestamps |-> ping_timestamps, ping_round_index |-> ping_round_index,
     result_queue |-> result_queue, runners |-> runners, tracers |-> tracers,
     start_button |-> start_button, stop_button |-> stop_button,
     clock |-> clock, prov |-> prov, clean_log |-> clean_log,
     drain_log |-> drain_log, entries |-> entries]

\* the next state holds the application state a
SetApp(a) ==
    /\ config' = a.config
    /\ running' = a.running
    /\ stop_event' = a.stop_event
    /\ scheduled_ping_after_id' = a.scheduled_ping_after_id
    /\ after_ticks' = a.after_ticks
    /\ next_after_id' = a.next_after_id
    /\ after_clean' = a.after_clean
    /\ after_stop' = a.after_stop
    /\ after_poll' = a.after_poll
    /\ ping_graphs' = a.ping_graphs
    /\ ping_order' = a.ping_order
    /\ ping_timestamps' = a.ping_timestamps
    /\ ping_round_index' = a.ping_round_index
    /\ result_queue' = a.result_queue
    /\ runners' = a.runners
    /\ tracers' = a.tracers
    /\ start_button' = a.start_button
    /\ stop_button' = a.stop_button
    /\ clock' = a.clock
    /\ prov' = a.prov
    /\ clean_log' = a.clean_log
    /\ drain_log' = a.drain_log
    /\ entries' = a.entries

\* one thread of a bag
One(r) == SetToBag({r})

\* history: the runners whose probe is not complete are marked as overtaken by a stop
MarkOvertaken(bag) ==
    LET probing(r) == r.pc \in {"start", "pinging"}
        mark(r) == IF probing(r) THEN [r EXCEPT !.overtaken = TRUE] ELSE r
        marked == {mark(r) : r \in BagToSet(bag)}
    IN [m \in marked |->
           IF probing(m)
           THEN CopiesIn(m, bag) + CopiesIn([m EXCEPT !.overtaken = FALSE], bag)
           ELSE CopiesIn(m, bag)]

\* history: the route discoveries under way are marked as overtaken by a stop
MarkTracers(bag) ==
    IF bag = EmptyBag THEN EmptyBag
    ELSE [t \in {[overtaken |-> TRUE]} |-> BagCardinality(bag)]

\* the handle reset to None with the timer left to fire
cancel_scheduled_handle_only(a) ==
    [a EXCEPT !.scheduled_ping_after_id = 0]

\* after_cancel(self._scheduled_ping_after_id) and the handle reset to None
cancel_scheduled(a) ==
    IF a.scheduled_ping_after_id # 0
    THEN [a EXCEPT !.after_ticks = @ \ {a.scheduled_ping_after_id},
                   !.scheduled_ping_after_id = 0]
    ELSE a

\* stop_pinging emptying the result queue as well
stop_pinging_draining(a) ==
    LET stopped == [a EXCEPT !.running = FALSE, !.stop_event = TRUE]
        cancelled == cancel_scheduled(stopped)
    IN [cancelled EXCEPT !.start_button = "normal",
                         !.stop_button = "disabled",
                         !.ping_graphs = NoGraphs,
                         !.ping_order = << >>,
                         !.ping_timestamps = << >>,
                         !.prov = [h \in {} |-> << >>],
                         !.result_queue = << >>,
                         !.runners = MarkOvertaken(@),
                         !.tracers = MarkTracers(@)]

\* stop_pinging setting the round counter back to 0 as well
stop_pinging_resetting_round(a) ==
    LET stopped == [a EXCEPT !.running = FALSE, !.stop_event = TRUE]
        cancelled == cancel_scheduled(stopped)
    IN [cancelled EXCEPT !.start_button = "normal",
                         !.stop_button = "disabled",
                         !.ping_graphs = NoGraphs,
                         !.ping_order = << >>,
                         !.ping_timestamps = << >>,
                         !.ping_round_index = 0,
                         !.prov = [h \in {} |-> << >>],
                         !.runners = MarkOvertaken(@),
                         !.tracers = MarkTracers(@)]

\* stop_pinging leaving the running flag as it finds it
stop_pinging_leaving_running(a) ==
    LET stopped == [a EXCEPT !.stop_event = TRUE]
        cancelled == cancel_scheduled(stopped)
    IN [cancelled EXCEPT !.start_button = "normal",
                         !.stop_button = "disabled",
                         !.ping_graphs = NoGraphs,
                         !.ping_order = << >>,
                         !.ping_timestamps = << >>,
                         !.prov = [h \in {} |-> << >>],
                         !.runners = MarkOvertaken(@),
                         !.tracers = MarkTracers(@)]

\* stop_pinging(clear_ui)
stop_pinging(a) ==
    LET stopped == [a EXCEPT !.running = FALSE, !.stop_event = TRUE]
        cancelled == cancel_scheduled(stopped)
    IN [cancelled EXCEPT !.start_button = "normal",
                         !.stop_button = "disabled",
                         !.ping_graphs = NoGraphs,
                         !.ping_order = << >>,
                         !.ping_timestamps = << >>,
                         !.prov = [h \in {} |-> << >>],
                         !.runners = MarkOvertaken(@),
                         !.tracers = MarkTracers(@)]

\* update_rate_label(): the rate entry clamped into the configuration
update_rate_label(a) ==
    LET t == a.entries.rate
    IN IF float_fails(t)
       THEN [a EXCEPT !.entries.rate = str_float(a.config.ping_rate)]
       ELSE LET rate == float_of(t)
                clamped == IF Lt(rate, MinRate) THEN MinRate
                           ELSE IF Gt(rate, MaxRate) THEN MaxRate
                           ELSE rate
            IN [a EXCEPT !.config.ping_rate = clamped,
                         !.entries.rate = str_float(clamped)]

\* _read_settings(), rate: in bounds it is taken, otherwise the entry reverts;
\* then update_rate_label()
read_rate(a) ==
    LET t == a.entries.rate
        ok == ~float_fails(t) /\ Le(MinRate, float_of(t)) /\ Le(float_of(t), MaxRate)
    IN update_rate_label(
           IF ok THEN [a EXCEPT !.config.ping_rate = float_of(t)]
           ELSE [a EXCEPT !.entries.rate = str_float(a.config.ping_rate)])

\* _read_settings(), timeout
read_timeout(a) ==
    LET t == a.entries.timeout
        ok == ~float_fails(t) /\ Le(MinTimeout, float_of(t))
                              /\ Le(float_of(t), MaxTimeout)
    IN IF ok THEN [a EXCEPT !.config.ping_timeout = float_of(t)]
       ELSE [a EXCEPT !.entries.timeout = str_float(a.config.ping_timeout)]

\* _read_settings(), size
read_size(a) ==
    LET t == a.entries.size
        ok == ~int_fails(t) /\ MinSize <= int_of(t) /\ int_of(t) <= MaxSize
    IN IF ok THEN [a EXCEPT !.config.ping_size = int_of(t)]
       ELSE [a EXCEPT !.entries.size = str_int(a.config.ping_size)]

\* _read_settings(), bad threshold
read_bad(a) ==
    LET t == a.entries.bad
        ok == ~float_fails(t) /\ Le(MinBad, float_of(t))
                              /\ Le(float_of(t), MaxThreshold)
    IN IF ok THEN [a EXCEPT !.config.bad_threshold = float_of(t)]
       ELSE [a EXCEPT !.entries.bad = str_threshold(a.config.bad_threshold)]

\* _read_settings(), so-bad threshold: checked against the bad threshold just
\* read, and set SoBadMargin above it when the entry does not pass
read_so_bad(a) ==
    LET t == a.entries.sobad
        ok == ~float_fails(t) /\ Lt(a.config.bad_threshold, float_of(t))
                              /\ Le(float_of(t), MaxThreshold)
    IN IF ok THEN [a EXCEPT !.config.so_bad_threshold = float_of(t)]
       ELSE LET so_bad == Plus(a.config.bad_threshold, SoBadMargin)
            IN [a EXCEPT !.config.so_bad_threshold = so_bad,
                         !.entries.sobad = str_threshold(so_bad)]

\* _read_settings(), the final check
final_check(a) ==
    IF Ge(a.config.bad_threshold, a.config.so_bad_threshold)
    THEN LET so_bad == Plus(a.config.bad_threshold, SoBadMargin)
         IN [a EXCEPT !.config.so_bad_threshold = so_bad,
                      !.entries.sobad = str_threshold(so_bad)]
    ELSE a

\* _read_settings() leaving the thresholds as they are
read_settings_without_thresholds(a) ==
    read_size(read_timeout(read_rate(a)))

\* _read_settings()
read_settings(a) ==
    final_check(read_so_bad(read_bad(read_size(read_timeout(read_rate(a))))))

\* start_pinging restarting whether or not a session is running
start_pinging_always(a, target) ==
    LET stopped == stop_pinging(a)
        cleared == [stopped EXCEPT !.stop_event = FALSE,
                                   !.ping_round_index = 0,
                                   !.result_queue = << >>]
    IN IF target = ""
       THEN cleared
       ELSE [read_settings(cleared) EXCEPT
                !.start_button = "disabled",
                !.stop_button = "normal",
                !.tracers = @ (+) One([overtaken |-> FALSE])]

\* start_pinging() leaving the round counter where the last session left it
start_pinging_keeping_round_index(a, target) ==
    IF a.running THEN a
    ELSE LET stopped == stop_pinging(a)
             cleared == [stopped EXCEPT !.stop_event = FALSE,
                                        !.result_queue = << >>]
         IN IF target = ""
            THEN cleared
            ELSE [read_settings(cleared) EXCEPT
                     !.start_button = "disabled",
                     !.stop_button = "normal",
                     !.tracers = @ (+) One([overtaken |-> FALSE])]

\* start_pinging(), the host entry holding a target or nothing
start_pinging(a, target) ==
    IF a.running THEN a
    ELSE LET stopped == stop_pinging(a)
             cleared == [stopped EXCEPT !.stop_event = FALSE,
                                        !.ping_round_index = 0,
                                        !.result_queue = << >>]
         IN IF target = ""
            THEN cleared
            ELSE [read_settings(cleared) EXCEPT
                     !.start_button = "disabled",
                     !.stop_button = "normal",
                     !.tracers = @ (+) One([overtaken |-> FALSE])]

\* the threads of a round tagged with the round counter after its increment
round_runners_tagged_late(hosts_to_ping, index) ==
    SetToBag({ [host_ip |-> h, index |-> index + 1, pc |-> "start",
                ping_result |-> ErrorS, overtaken |-> FALSE, probed |-> FALSE] :
              h \in hosts_to_ping })

\* the PingRunner threads one round starts, one per tracked host
round_runners(hosts_to_ping, index) ==
    SetToBag({ [host_ip |-> h, index |-> index, pc |-> "start",
                ping_result |-> ErrorS, overtaken |-> FALSE, probed |-> FALSE] :
              h \in hosts_to_ping })

\* int(1000 / ping_rate) raises: ZeroDivisionError for a rate of 0, ValueError
\* for nan; the callback ends there, nothing after it runs
delay_raises(rate) == rate = 0 \/ rate = NaN

\* schedule_next_ping_round() putting the round off, the timer set again,
\* while a PingRunner thread is alive
schedule_next_ping_round_waiting(a0) ==
    LET a == cancel_scheduled(a0) IN
    IF ~a.running \/ a.stop_event
    THEN [a EXCEPT !.running = FALSE,
                   !.start_button = "normal",
                   !.stop_button = "disabled"]
    ELSE IF a.runners # EmptyBag
    THEN [a EXCEPT !.scheduled_ping_after_id = a.next_after_id,
                   !.after_ticks = @ \cup {a.next_after_id},
                   !.next_after_id = @ + 1]
    ELSE LET stamped == [a EXCEPT !.ping_timestamps = Append(@, a.clock),
                                  !.clock = @ + 1]
             current_round_index == a.ping_round_index
             hosts_to_ping == DOMAIN a.ping_graphs
         IN IF hosts_to_ping = {}
            THEN stop_pinging(stamped)
            ELSE IF delay_raises(a.config.ping_rate)
            THEN [stamped EXCEPT
                     !.runners = @ (+) round_runners(hosts_to_ping, current_round_index),
                     !.ping_round_index = @ + 1]
            ELSE [stamped EXCEPT
                     !.runners = @ (+) round_runners(hosts_to_ping, current_round_index),
                     !.ping_round_index = @ + 1,
                     !.scheduled_ping_after_id = a.next_after_id,
                     !.after_ticks = @ \cup {a.next_after_id},
                     !.next_after_id = @ + 1,
                     !.after_clean =
                         IF current_round_index > CleanAfterRound
                            /\ current_round_index % CleanEvery = 0
                         THEN @ + 1 ELSE @]

\* schedule_next_ping_round() asking for a pruning pass at round 0 as well
schedule_next_ping_round_cleaning_from_0(a0) ==
    LET a == cancel_scheduled(a0) IN
    IF ~a.running \/ a.stop_event
    THEN [a EXCEPT !.running = FALSE,
                   !.start_button = "normal",
                   !.stop_button = "disabled"]
    ELSE LET stamped == [a EXCEPT !.ping_timestamps = Append(@, a.clock),
                                  !.clock = @ + 1]
             current_round_index == a.ping_round_index
             hosts_to_ping == DOMAIN a.ping_graphs
         IN IF hosts_to_ping = {}
            THEN stop_pinging(stamped)
            ELSE IF delay_raises(a.config.ping_rate)
            THEN [stamped EXCEPT
                     !.runners = @ (+) round_runners(hosts_to_ping, current_round_index),
                     !.ping_round_index = @ + 1]
            ELSE [stamped EXCEPT
                     !.runners = @ (+) round_runners(hosts_to_ping, current_round_index),
                     !.ping_round_index = @ + 1,
                     !.scheduled_ping_after_id = a.next_after_id,
                     !.after_ticks = @ \cup {a.next_after_id},
                     !.next_after_id = @ + 1,
                     !.after_clean =
                         IF current_round_index % CleanEvery = 0
                         THEN @ + 1 ELSE @]

\* schedule_next_ping_round() setting its timer without cancelling the stored one
schedule_next_ping_round_without_cancel(a0) ==
    LET a == a0 IN
    IF ~a.running \/ a.stop_event
    THEN [a EXCEPT !.running = FALSE,
                   !.start_button = "normal",
                   !.stop_button = "disabled"]
    ELSE LET stamped == [a EXCEPT !.ping_timestamps = Append(@, a.clock),
                                  !.clock = @ + 1]
             current_round_index == a.ping_round_index
             hosts_to_ping == DOMAIN a.ping_graphs
         IN IF hosts_to_ping = {}
            THEN stop_pinging(stamped)
            ELSE IF delay_raises(a.config.ping_rate)
            THEN [stamped EXCEPT
                     !.runners = @ (+) round_runners(hosts_to_ping, current_round_index),
                     !.ping_round_index = @ + 1]
            ELSE [stamped EXCEPT
                     !.runners = @ (+) round_runners(hosts_to_ping, current_round_index),
                     !.ping_round_index = @ + 1,
                     !.scheduled_ping_after_id = a.next_after_id,
                     !.after_ticks = @ \cup {a.next_after_id},
                     !.next_after_id = @ + 1,
                     !.after_clean =
                         IF current_round_index > CleanAfterRound
                            /\ current_round_index % CleanEvery = 0
                         THEN @ + 1 ELSE @]

\* schedule_next_ping_round()
schedule_next_ping_round(a0) ==
    LET a == cancel_scheduled(a0) IN
    IF ~a.running \/ a.stop_event
    THEN [a EXCEPT !.running = FALSE,
                   !.start_button = "normal",
                   !.stop_button = "disabled"]
    ELSE LET stamped == [a EXCEPT !.ping_timestamps = Append(@, a.clock),
                                  !.clock = @ + 1]
             current_round_index == a.ping_round_index
             hosts_to_ping == DOMAIN a.ping_graphs
         IN IF hosts_to_ping = {}
            THEN stop_pinging(stamped)
            ELSE IF delay_raises(a.config.ping_rate)
            THEN [stamped EXCEPT
                     !.runners = @ (+) round_runners(hosts_to_ping, current_round_index),
                     !.ping_round_index = @ + 1]
            ELSE [stamped EXCEPT
                     !.runners = @ (+) round_runners(hosts_to_ping, current_round_index),
                     !.ping_round_index = @ + 1,
                     !.scheduled_ping_after_id = a.next_after_id,
                     !.after_ticks = @ \cup {a.next_after_id},
                     !.next_after_id = @ + 1,
                     !.after_clean =
                         IF current_round_index > CleanAfterRound
                            /\ current_round_index % CleanEvery = 0
                         THEN @ + 1 ELSE @]

\* hop[0] of every hop that has an address, in hop order
RECURSIVE valid_hops(_)
valid_hops(hops) ==
    IF hops = << >> THEN << >>
    ELSE IF Head(hops) = NoAddr THEN valid_hops(Tail(hops))
    ELSE << Head(hops) >> \o valid_hops(Tail(hops))

Range(seq) == {seq[i] : i \in 1..Len(seq)}

\* _process_traceroute_results(hops, target)
process_traceroute_results(a, hops) ==
    IF a.stop_event THEN stop_pinging(a)
    ELSE IF hops = << >> THEN [a EXCEPT !.after_stop = @ + 1]
    ELSE LET valid == valid_hops(hops)
             created == Range(valid)
             graphs == [h \in DOMAIN a.ping_graphs \cup created |->
                           IF h \in created THEN NewPingGraph ELSE a.ping_graphs[h]]
             added == [a EXCEPT !.ping_graphs = graphs,
                                !.ping_order = @ \o valid,
                                !.prov = [h \in DOMAIN graphs |->
                                             IF h \in created THEN << >> ELSE a.prov[h]]]
         IN IF Len(valid) = 0
            THEN [added EXCEPT !.after_stop = @ + 1]
            ELSE schedule_next_ping_round(
                    [added EXCEPT
                        !.ping_graphs = [h \in DOMAIN graphs |->
                            on_resize(graphs[h], canvas_width, canvas_height, a.config)],
                        !.running = TRUE])

\* ping_order.remove(ip): the first occurrence of ip leaves the list
RECURSIVE remove_first(_, _)
remove_first(order, ip) ==
    IF order = << >> THEN << >>
    ELSE IF Head(order) = ip THEN Tail(order)
    ELSE << Head(order) >> \o remove_first(Tail(order), ip)

\* the for loop of clean_unpingable over remove_ips, on ping_order
RECURSIVE remove_each(_, _)
remove_each(order, remove_ips) ==
    IF remove_ips = {} THEN order
    ELSE LET ip == CHOOSE x \in remove_ips : TRUE
         IN remove_each(remove_first(order, ip), remove_ips \ {ip})

\* the test with the attempts counted from MinAttempts on
is_unpingable_from_min(pg) ==
    pg.stat_count = 0 /\ (pg.stat_count + pg.stat_loss_count) >= MinAttempts

\* the test clean_unpingable applies to one graph
is_unpingable(pg) ==
    pg.stat_count = 0 /\ (pg.stat_count + pg.stat_loss_count) > MinAttempts

\* a pass that never holds back
all_unresponsive_ignored(remove_ips, kept_ips) == FALSE

\* clean_unpingable's last early return: every graph is marked for removal
all_unresponsive(remove_ips, kept_ips) ==
    Cardinality(kept_ips) = 0 /\ Cardinality(remove_ips) > 0

\* clean_unpingable(); clean_log keeps the counters the pass found and the
\* hosts it left
clean_unpingable(a) ==
    IF ~a.running THEN a
    ELSE LET remove_ips == {ip \in DOMAIN a.ping_graphs : is_unpingable(a.ping_graphs[ip])}
             kept_ips == DOMAIN a.ping_graphs \ remove_ips
             done == IF Cardinality(DOMAIN a.ping_graphs) <= 1 THEN a
                     ELSE IF remove_ips = {} THEN a
                     ELSE IF all_unresponsive(remove_ips, kept_ips) THEN a
                     ELSE [a EXCEPT
                              !.ping_graphs = [ip \in kept_ips |-> a.ping_graphs[ip]],
                              !.prov = [ip \in kept_ips |-> a.prov[ip]],
                              !.ping_order = remove_each(@, remove_ips)]
         IN [done EXCEPT
                !.clean_log =
                    [ran |-> TRUE,
                     before |-> [ip \in DOMAIN a.ping_graphs |->
                                    << a.ping_graphs[ip].stat_count,
                                       a.ping_graphs[ip].stat_loss_count >>],
                     after |-> DOMAIN done.ping_graphs]]

\* the while loop ended by the first tuple of an untracked host, as a lookup
\* of ping_graphs[host_ip] without the membership test would end it: the tuple
\* is taken, the ones behind it stay in the queue
RECURSIVE drain_until_untracked(_, _)
drain_until_untracked(a, queue) ==
    IF queue = << >> THEN [a EXCEPT !.result_queue = << >>]
    ELSE LET t == Head(queue)
         IN IF t.host_ip \in DOMAIN a.ping_graphs
            THEN drain_until_untracked(
                     [a EXCEPT
                         !.ping_graphs[t.host_ip] =
                             add_ping(@, t.ping_value, canvas_width, canvas_height, a.config),
                         !.prov[t.host_ip] =
                             Append(@, [index |-> t.index, overtaken |-> t.overtaken,
                                        probed |-> t.probed])],
                     Tail(queue))
            ELSE [a EXCEPT !.result_queue = Tail(queue)]

\* the while loop taking the newest tuple first
RECURSIVE drain_newest_first(_, _)
drain_newest_first(a, queue) ==
    IF queue = << >> THEN [a EXCEPT !.result_queue = << >>]
    ELSE LET t == queue[Len(queue)]
             applied ==
                 IF t.host_ip \in DOMAIN a.ping_graphs
                 THEN [a EXCEPT
                          !.ping_graphs[t.host_ip] =
                              add_ping(@, t.ping_value, canvas_width, canvas_height, a.config),
                          !.prov[t.host_ip] =
                              Append(@, [index |-> t.index, overtaken |-> t.overtaken,
                                         probed |-> t.probed])]
                 ELSE a
         IN drain_newest_first(applied, SubSeq(queue, 1, Len(queue) - 1))

\* the while loop of process_ping_results: every tuple of the queue, in order
RECURSIVE drain(_, _)
drain(a, queue) ==
    IF queue = << >> THEN [a EXCEPT !.result_queue = << >>]
    ELSE LET t == Head(queue)
             applied ==
                 IF t.host_ip \in DOMAIN a.ping_graphs
                 THEN [a EXCEPT
                          !.ping_graphs[t.host_ip] =
                              add_ping(@, t.ping_value, canvas_width, canvas_height, a.config),
                          !.prov[t.host_ip] =
                              Append(@, [index |-> t.index, overtaken |-> t.overtaken,
                                         probed |-> t.probed])]
                 ELSE a
         IN drain(applied, Tail(queue))

\* what a pass over the queue discards, its hosts being untracked, and how many
\* tuples of tracked hosts it takes after the first one it discarded
drained(a) ==
    LET q == a.result_queue
        untracked == { i \in 1..Len(q) : q[i].host_ip \notin DOMAIN a.ping_graphs }
    IN [ran |-> TRUE,
        discarded |-> Cardinality(untracked),
        kept_after |-> Cardinality({ i \in 1..Len(q) :
                           /\ i \notin untracked
                           /\ \E j \in untracked : j < i })]

\* process_ping_results() rescheduling itself only while a session runs
process_ping_results_while_running(a) ==
    [drain(a, a.result_queue) EXCEPT
        !.drain_log = drained(a),
        !.after_poll = IF a.running THEN @ + 1 ELSE @]

\* process_ping_results(): the loop over get_nowait() until queue.Empty, then
\* self.after(50, self.process_ping_results), which is outside the try
process_ping_results(a) ==
    [drain(a, a.result_queue) EXCEPT
        !.drain_log = drained(a),
        !.after_poll = @ + 1]

-----------------------------------------------------------------------------
(* The session's steps: main-thread callbacks and PingRunner thread steps *)

env_vars == << canvas_width, canvas_height, edits, line >>

\* the Start button or the Return key: start_pinging()
UserStart ==
    /\ start_button = "normal"
    /\ BagCardinality(tracers) < MaxTracers
    /\ \E target \in {"", "host"} : SetApp(start_pinging(App, target))
    /\ UNCHANGED env_vars

\* the Stop button or the Escape key: stop_pinging()
UserStop ==
    /\ stop_button = "normal"
    /\ SetApp(stop_pinging(App))
    /\ UNCHANGED env_vars

\* an after(5000, self.stop_pinging) or after(4000, self.stop_pinging) fires
DeferredStop ==
    /\ after_stop > 0
    /\ SetApp(stop_pinging([App EXCEPT !.after_stop = @ - 1]))
    /\ UNCHANGED env_vars

\* do_trace_route ends and its after(0, _process_traceroute_results, hops) runs
TracerouteResult ==
    \E t \in BagToSet(tracers), hops \in HopResults :
        LET a == process_traceroute_results([App EXCEPT !.tracers = @ (-) One(t)], hops)
        IN /\ a.clock <= MaxClock
           /\ BagCardinality(a.runners) <= MaxRunners
           /\ a.after_stop <= MaxDeferredStops
           /\ SetApp(a)
           /\ UNCHANGED env_vars

\* the round timer fires: schedule_next_ping_round()
Tick ==
    \E id \in after_ticks :
        LET a == schedule_next_ping_round([App EXCEPT !.after_ticks = @ \ {id}])
        IN /\ a.clock <= MaxClock
           /\ BagCardinality(a.runners) <= MaxRunners
           /\ SetApp(a)
           /\ UNCHANGED env_vars

\* an after(1000, self.clean_unpingable) fires
CleanUnpingable ==
    /\ after_clean > 0
    /\ SetApp(clean_unpingable([App EXCEPT !.after_clean = @ - 1]))
    /\ UNCHANGED env_vars

\* an after(100/50, self.process_ping_results) fires and the poll finds results
\* (a poll that finds the queue empty leaves every variable as it was)
ProcessPingResults ==
    /\ after_poll > 0
    /\ result_queue # << >>
    /\ SetApp(process_ping_results([App EXCEPT !.after_poll = @ - 1]))
    /\ UNCHANGED env_vars

thread_unchanged ==
    << config, running, stop_event, scheduled_ping_after_id, after_ticks,
       next_after_id, after_clean, after_stop, after_poll, ping_graphs, ping_order,
       ping_timestamps, ping_round_index, tracers, start_button, stop_button,
       clock, prov, clean_log, drain_log, entries, edits, canvas_width,
       canvas_height, line >>

\* PingRunner.run: the stop event is read before the probe
RunnerStart ==
    \E r \in BagToSet(runners) :
        /\ r.pc = "start"
        /\ runners' = (runners (-) One(r)) (+)
                      One([r EXCEPT !.pc = IF stop_event THEN "post" ELSE "pinging"])
        /\ UNCHANGED << thread_unchanged, result_queue >>

\* PingRunner.run: ping() returns or raises
RunnerPing ==
    \E r \in BagToSet(runners), result \in PingOutcomes :
        /\ r.pc = "pinging"
        /\ runners' = (runners (-) One(r)) (+)
                      One([r EXCEPT !.pc = "post", !.ping_result = result,
                                    !.probed = TRUE])
        /\ UNCHANGED << thread_unchanged, result_queue >>

\* PingRunner.run: the stop event is read after the probe; set, the thread ends
RunnerCheck ==
    \E r \in BagToSet(runners) :
        /\ r.pc = "post"
        /\ runners' = IF stop_event THEN runners (-) One(r)
                      ELSE (runners (-) One(r)) (+) One([r EXCEPT !.pc = "put"])
        /\ UNCHANGED << thread_unchanged, result_queue >>

\* PingRunner.run: result_queue.put((host_ip, index, ping_result)); the thread ends
RunnerPut ==
    \E r \in BagToSet(runners) :
        /\ r.pc = "put"
        /\ runners' = runners (-) One(r)
        /\ result_queue' = Append(result_queue,
                                  [host_ip |-> r.host_ip, index |-> r.index,
                                   ping_value |-> r.ping_result,
                                   overtaken |-> r.overtaken, probed |-> r.probed])
        /\ UNCHANGED thread_unchanged

Next ==
    \/ UserStart
    \/ UserStop
    \/ DeferredStop
    \/ TracerouteResult
    \/ Tick
    \/ ProcessPingResults
    \/ RunnerStart
    \/ RunnerPing
    \/ RunnerCheck
    \/ RunnerPut

Spec == Init /\ [][Next]_vars

-----------------------------------------------------------------------------
(* One PingGraph driven through its methods: add_ping, on_resize,          *)
(* on_mouse_move, while the canvas changes size under it.                  *)

\* the samples appended in the single-graph specification
GraphSamples == {TimeoutS, ErrorS, Ms(10), Ms(20)}

TheHost == "h1"

InitGraph ==
    /\ config = DefaultConfig
    /\ running = FALSE
    /\ stop_event = FALSE
    /\ scheduled_ping_after_id = 0
    /\ after_ticks = {}
    /\ next_after_id = 1
    /\ after_clean = 0
    /\ after_stop = 0
    /\ after_poll = 1
    /\ canvas_width \in 1..MaxWidth
    /\ canvas_height \in 1..MaxHeight
    /\ ping_graphs = [h \in {TheHost} |->
                        on_resize(NewPingGraph, canvas_width, canvas_height, config)]
    /\ ping_order = << TheHost >>
    /\ ping_timestamps = << >>
    /\ ping_round_index = 0
    /\ result_queue = << >>
    /\ runners = EmptyBag
    /\ tracers = EmptyBag
    /\ start_button = "disabled"
    /\ stop_button = "normal"
    /\ clock = 0
    /\ prov = [h \in {TheHost} |-> << >>]
    /\ clean_log = NoCleanLog
    /\ drain_log = NoDrainLog
    /\ entries = options_of(config)
    /\ edits = 0
    /\ line = NoLine

\* add_ping(v)
GraphAddPing ==
    \E v \in GraphSamples :
        /\ Len(ping_graphs[TheHost].pings) < MaxPings
        /\ ping_graphs' = [ping_graphs EXCEPT ![TheHost] =
                              add_ping(@, v, canvas_width, canvas_height, config)]
        /\ UNCHANGED << app_vars, canvas_width, canvas_height >>

\* the geometry manager gives the canvas a new size
GraphCanvasChange ==
    \E w \in 1..MaxWidth, h \in 1..MaxHeight :
        /\ << w, h >> # << canvas_width, canvas_height >>
        /\ canvas_width' = w
        /\ canvas_height' = h
        /\ UNCHANGED << app_vars, ping_graphs >>

\* the <Configure> event: on_resize(event) with the canvas's size
GraphOnResize ==
    /\ ping_graphs' = [ping_graphs EXCEPT ![TheHost] =
                          on_resize(@, canvas_width, canvas_height, config)]
    /\ UNCHANGED << app_vars, canvas_width, canvas_height >>

NextGraph ==
    \/ GraphAddPing
    \/ GraphCanvasChange
    \/ GraphOnResize

SpecGraph == InitGraph /\ [][NextGraph]_vars

\* the geometry manager leaves the canvas no room: its width becomes 0
GraphCanvasCollapse ==
    /\ canvas_width > 0
    /\ canvas_width' = 0
    /\ UNCHANGED << app_vars, ping_graphs, canvas_height >>

\* one PingGraph on a canvas that may also lose its width
NextCollapse ==
    \/ NextGraph
    \/ GraphCanvasCollapse

SpecCollapse == InitGraph /\ [][NextCollapse]_vars

-----------------------------------------------------------------------------
(* The hover lookup of a PingGraph that holds n samples on a canvas of     *)
(* width W: on_mouse_move and on_mouse_leave.                              *)

\* longest series hovered over
MaxHoverPings == 10
\* widest canvas hovered over
MaxHoverWidth == 6

\* pg after add_ping of samples[k], samples[k + 1], ...
RECURSIVE add_all(_, _, _, _, _, _)
add_all(pg, samples, k, canvas_w, canvas_h, cfg) ==
    IF k > Len(samples) THEN pg
    ELSE add_all(add_ping(pg, samples[k], canvas_w, canvas_h, cfg),
                 samples, k + 1, canvas_w, canvas_h, cfg)

\* n samples: successes of 10 ms with every third probe timing out
HoverSamples(n) == [i \in 1..n |-> IF i % 3 = 0 THEN TimeoutS ELSE Ms(10)]

InitHover ==
    /\ config = DefaultConfig
    /\ running = FALSE
    /\ stop_event = FALSE
    /\ scheduled_ping_after_id = 0
    /\ after_ticks = {}
    /\ next_after_id = 1
    /\ after_clean = 0
    /\ after_stop = 0
    /\ after_poll = 1
    /\ canvas_width \in 1..MaxHoverWidth
    /\ canvas_height = 1
    /\ \E n \in 0..MaxHoverPings :
          ping_graphs = [h \in {TheHost} |->
              add_all(on_resize(NewPingGraph, canvas_width, canvas_height, config),
                      HoverSamples(n), 1, canvas_width, canvas_height, config)]
    /\ ping_order = << TheHost >>
    /\ ping_timestamps = << >>
    /\ ping_round_index = 0
    /\ result_queue = << >>
    /\ runners = EmptyBag
    /\ tracers = EmptyBag
    /\ start_button = "disabled"
    /\ stop_button = "normal"
    /\ clock = 0
    /\ prov = [h \in {TheHost} |-> << >>]
    /\ clean_log = NoCleanLog
    /\ drain_log = NoDrainLog
    /\ entries = options_of(config)
    /\ edits = 0
    /\ line = NoLine

\* the pointer columns tried: the canvas and one column on either side
HoverColumns == -1..(MaxHoverWidth + 1)

\* the <Motion> event: on_mouse_move(event) with event.x = x
HoverMouseMoveAt(x) ==
    /\ ping_graphs' = [ping_graphs EXCEPT ![TheHost] =
                          on_mouse_move(@, x, canvas_width, ping_timestamps)]
    /\ UNCHANGED << app_vars, canvas_width, canvas_height >>

HoverMouseMove == \E x \in HoverColumns : HoverMouseMoveAt(x)

\* the <Leave> event, or the hover timer firing
HoverMouseLeave ==
    /\ ping_graphs[TheHost].info_label # StatsLabel
    /\ ping_graphs' = [ping_graphs EXCEPT ![TheHost] = on_mouse_leave(@)]
    /\ UNCHANGED << app_vars, canvas_width, canvas_height >>

NextHover ==
    \/ HoverMouseMove
    \/ HoverMouseLeave

SpecHover == InitHover /\ [][NextHover]_vars

-----------------------------------------------------------------------------
(* draw_line_on_image exercised alone: one sample drawn in column 0 of a   *)
(* blank image of height H, under thresholds 0 < bad < soBad.              *)

\* tallest image drawn on
MaxLineHeight == 6

\* the threshold pairs tried: Config's defaults and two narrow pairs
ThresholdPairs == { << DefaultBad, DefaultSoBad >>, << 2, 5 >>, << 3, 4 >> }

\* the samples drawn
LineSamples ==
    {TimeoutS, ErrorS} \cup
    {Ms(v) : v \in {0, 1, 2, 3, 4, 5, 50, 99, 100, 101, 150, 199, 200, 250}}

InitLine ==
    /\ \E t \in ThresholdPairs :
          config = [DefaultConfig EXCEPT !.bad_threshold = t[1],
                                         !.so_bad_threshold = t[2]]
    /\ running = FALSE
    /\ stop_event = FALSE
    /\ scheduled_ping_after_id = 0
    /\ after_ticks = {}
    /\ next_after_id = 1
    /\ after_clean = 0
    /\ after_stop = 0
    /\ after_poll = 1
    /\ canvas_width = 1
    /\ canvas_height \in 1..MaxLineHeight
    /\ ping_graphs = NoGraphs
    /\ ping_order = << >>
    /\ ping_timestamps = << >>
    /\ ping_round_index = 0
    /\ result_queue = << >>
    /\ runners = EmptyBag
    /\ tracers = EmptyBag
    /\ start_button = "normal"
    /\ stop_button = "normal"
    /\ clock = 0
    /\ prov = [h \in {} |-> << >>]
    /\ clean_log = NoCleanLog
    /\ drain_log = NoDrainLog
    /\ entries = options_of(config)
    /\ edits = 0
    /\ line = [value |-> TimeoutS, drawn |-> FALSE,
               img |-> NewImage(canvas_width, canvas_height)]

\* draw_line_on_image(0, v, blank image)
LineDraw ==
    \E v \in LineSamples :
        /\ line' = [value |-> v, drawn |-> TRUE,
                    img |-> draw_line_on_image(
                                0, v, NewImage(canvas_width, canvas_height), config)]
        /\ UNCHANGED << config, running, stop_event, scheduled_ping_after_id,
                        after_ticks, next_after_id, after_clean, after_stop, after_poll,
                        ping_graphs, ping_order, ping_timestamps, ping_round_index,
                        result_queue, runners, tracers, start_button, stop_button,
                        canvas_width, canvas_height, clock, prov, clean_log,
                        drain_log, entries, edits >>

NextLine == LineDraw

SpecLine == InitLine /\ [][NextLine]_vars

-----------------------------------------------------------------------------
(* The pruning pass: a running session about to start round CleanEvery,    *)
(* whose graphs hold the results recorded so far.  The tick of that round  *)
(* requests clean_unpingable, which then meets the graphs as the router    *)
(* has left them.                                                          *)

PruneOrder == << "h1", "h2" >>

\* n timeouts in a row
Losses(n) == [i \in 1..n |-> TimeoutS]

\* the results a host has on record: from one short of MinAttempts to
\* MaxPruneExtra past it, all timeouts or ending in an answer or an error
PruneHistories ==
    UNION { { Losses(n),
              Losses(n - 1) \o << Ms(10) >>,
              Losses(n - 1) \o << ErrorS >> } :
            n \in (MinAttempts - 1)..(MinAttempts + MaxPruneExtra) }

InitPrune ==
    /\ clock = MaxClock - 1      \* the tick of round CleanEvery is the last one followed
    /\ config = DefaultConfig
    /\ running = TRUE
    /\ stop_event = FALSE
    /\ scheduled_ping_after_id = 1
    /\ after_ticks = {1}
    /\ next_after_id = 2
    /\ after_clean = 0
    /\ after_stop = 0
    /\ after_poll = 1
    /\ canvas_width = SessionWidth
    /\ canvas_height = SessionHeight
    /\ \E history \in [Range(PruneOrder) -> PruneHistories] :
          /\ ping_graphs =
                [h \in Range(PruneOrder) |->
                    add_all(on_resize(NewPingGraph, canvas_width, canvas_height, config),
                            history[h], 1, canvas_width, canvas_height, config)]
          /\ prov = [h \in Range(PruneOrder) |->
                        [i \in 1..Len(history[h]) |->
                            [index |-> i - 1, overtaken |-> FALSE, probed |-> TRUE]]]
    /\ ping_order = PruneOrder
    /\ ping_timestamps = [i \in 1..CleanEvery |-> clock - CleanEvery - 1 + i]
    /\ ping_round_index = CleanEvery
    /\ result_queue = << >>
    /\ runners = EmptyBag
    /\ tracers = EmptyBag
    /\ start_button = "disabled"
    /\ stop_button = "normal"
    /\ clean_log = NoCleanLog
    /\ drain_log = NoDrainLog
    /\ entries = options_of(config)
    /\ edits = 0
    /\ line = NoLine

\* the session runs until it is stopped
NextPrune ==
    \/ CleanUnpingable
    \/ Tick
    \/ ProcessPingResults
    \/ RunnerStart
    \/ RunnerPing
    \/ RunnerCheck
    \/ RunnerPut
    \/ UserStop

SpecPrune == InitPrune /\ [][NextPrune]_vars

-----------------------------------------------------------------------------
(* Properties of one PingGraph *)

\* the column a sample leaves when drawn alone on a black column of height h
Render(v, h) == draw_line_on_image(0, v, NewImage(1, h), config).px[1]

\* column x of the raster
Column(pg, x) == pg.pil_image.px[x + 1]

\* a Success sample of the spec's taxonomy: a latency, neither Timeout nor Error
IsSuccess(v) == v.kind = "float"

\* C2: with a buffer present, columns [0, cursor) show exactly the last
\* cursor samples of pings in order, and cursor = min(current_width, len(pings)).
C2_SlidingWindow ==
    \A host \in DOMAIN ping_graphs :
        LET pg == ping_graphs[host]
            n == Len(pg.pings)
            c == pg.current_buffer_index
        IN pg.pil_image # NoImage =>
              /\ c = Min(pg.current_width, n)
              /\ \A j \in 0..(c - 1) :
                    Column(pg, j) = Render(pg.pings[n - c + j + 1], pg.pil_image.h)

\* number of positions i >= 1 with pings[i-1] and pings[i] both successes
ConsecutiveSuccesses(pings) ==
    Cardinality({i \in 2..Len(pings) : IsSuccess(pings[i - 1]) /\ IsSuccess(pings[i])})

\* C4 as stated: stat_jitter_count counts the immediately consecutive pairs of
\* successes, so that [Success(10), Timeout, Success(20)] gives 0.
C4_ConsecutivePairsOnly ==
    \A host \in DOMAIN ping_graphs :
        LET pg == ping_graphs[host] IN
        pg.stat_jitter_count = ConsecutiveSuccesses(pg.pings)

\* C4 amended: one jitter value for every counted success after the first,
\* losses in between being skipped: stat_jitter_count = max(0, stat_count - 1),
\* which for a series without Error samples is the number of Success samples
\* minus one; [Success(10), Timeout, Success(20)] gives 1.
C4_JitterPerLaterSuccess ==
    \A host \in DOMAIN ping_graphs :
        LET pg == ping_graphs[host]
            successes == Cardinality({i \in 1..Len(pg.pings) : IsSuccess(pg.pings[i])})
            errors == {i \in 1..Len(pg.pings) : pg.pings[i] = ErrorS}
        IN /\ pg.stat_jitter_count = Max(0, pg.stat_count - 1)
           /\ errors = {} => pg.stat_jitter_count = Max(0, successes - 1)
           /\ pg.pings = << Ms(10), TimeoutS, Ms(20) >> => pg.stat_jitter_count = 1

\* C4 witness: the series [Success(10), Timeout, Success(20)] has been appended
C4_Witness ==
    \E host \in DOMAIN ping_graphs :
        ping_graphs[host].pings = << Ms(10), TimeoutS, Ms(20) >>

\* C8: an add_ping that leaves the buffer width W unchanged, on a non-full buffer,
\* paints column len(pings)-1 only and sets the cursor to len(pings); on a full
\* buffer it moves columns [1, W) to [0, W-1), paints the new sample in column
\* W-1 and leaves the cursor at W.  Columns are compared by the sample they show.
SameContent(pg, x, pg2, y) ==
    \/ /\ Column(pg, x) = [r \in 1..pg.pil_image.h |-> BLACK]
       /\ Column(pg2, y) = [r \in 1..pg2.pil_image.h |-> BLACK]
    \/ \E v \in GraphSamples :
          /\ Column(pg, x) = Render(v, pg.pil_image.h)
          /\ Column(pg2, y) = Render(v, pg2.pil_image.h)

PushEffect(pg, pg2) ==
    LET W == pg.current_width
        n == Len(pg2.pings)
        v == pg2.pings[n]
    IN IF n <= W
       THEN /\ pg2.current_buffer_index = n
            /\ Column(pg2, n - 1) = Render(v, pg2.pil_image.h)
            /\ \A x \in (0..(W - 1)) \ {n - 1} : SameContent(pg, x, pg2, x)
       ELSE /\ pg2.current_buffer_index = W
            /\ Column(pg2, W - 1) = Render(v, pg2.pil_image.h)
            /\ \A x \in 0..(W - 2) : SameContent(pg, x + 1, pg2, x)

C8_PushShiftsByOne ==
    [][ ( /\ GraphAddPing
          /\ ping_graphs[TheHost].pil_image # NoImage
          /\ ping_graphs'[TheHost].current_width = ping_graphs[TheHost].current_width )
        => PushEffect(ping_graphs[TheHost], ping_graphs'[TheHost]) ]_vars

\* C9 as stated: the reported loss percentage is loss / (count + loss) * 100 exactly.
\* loss_percent is in tenths of a percent.
C9_ExactLossPercent ==
    \A host \in DOMAIN ping_graphs :
        LET pg == ping_graphs[host]
            total == pg.stat_count + pg.stat_loss_count
        IN total > 0 => loss_percent(pg) * total = 1000 * pg.stat_loss_count

\* C9 amended: the reported loss percentage is loss / (count + loss) * 100 rounded
\* to one decimal: a whole number of tenths, at most 0.05 away from the exact value.
C9_RoundedLossPercent ==
    \A host \in DOMAIN ping_graphs :
        LET pg == ping_graphs[host]
            total == pg.stat_count + pg.stat_loss_count
        IN total > 0 =>
              2 * Abs(loss_percent(pg) * total - 1000 * pg.stat_loss_count) <= total

\* C9 witness: one loss in three attempts (33.333...%)
C9_Witness ==
    \E host \in DOMAIN ping_graphs :
        /\ ping_graphs[host].stat_loss_count = 1
        /\ ping_graphs[host].stat_count = 2

-----------------------------------------------------------------------------
(* Properties of the hover lookup *)

\* what on_mouse_move at column x must leave in the label, for n samples and width W
HoverExpected(pg, pg2, W, x) ==
    LET n == Len(pg.pings) IN
    IF n = 0 THEN pg2.info_label = pg.info_label
    ELSE IF n < W /\ 0 <= x /\ x < n
    THEN pg2.info_label.mode = "hover" /\ pg2.info_label.index = x
    ELSE IF n >= W /\ 0 <= x /\ x < W
    THEN pg2.info_label.mode = "hover" /\ pg2.info_label.index = n - W + x
    ELSE pg2.info_label = StatsLabel

\* C7: for n samples and width W the hover lookup maps column x to index x when
\* n < W and 0 <= x < n, to n - W + x when n >= W and 0 <= x < W, and to no
\* data otherwise; with n = 10 and W = 5, column 0 maps to 5 and column 4 to 9.
C7_HoverIndex ==
    [][ \A x \in HoverColumns :
           HoverMouseMoveAt(x) =>
              /\ HoverExpected(ping_graphs[TheHost], ping_graphs'[TheHost],
                               canvas_width, x)
              /\ ( Len(ping_graphs[TheHost].pings) = 10 /\ canvas_width = 5 ) =>
                    /\ x = 0 => ping_graphs'[TheHost].info_label.index = 5
                    /\ x = 4 => ping_graphs'[TheHost].info_label.index = 9
                    /\ x \notin 0..4 => ping_graphs'[TheHost].info_label = StatsLabel
      ]_vars

\* C7 witness: 10 samples on a canvas of width 5, the label showing sample 9
C7_Witness ==
    /\ TheHost \in DOMAIN ping_graphs
    /\ Len(ping_graphs[TheHost].pings) = 10
    /\ canvas_width = 5
    /\ ping_graphs[TheHost].info_label.mode = "hover"
    /\ ping_graphs[TheHost].info_label.index = 9

-----------------------------------------------------------------------------
(* Properties of draw_line_on_image *)

\* rows of column 0 that are painted
PaintedRows(img) == {y \in 1..img.h : img.px[1][y] # BLACK}
\* the indicator is the bottom lh rows of the column, in one color
IsIndicator(img, lh, col) ==
    /\ PaintedRows(img) = (img.h - lh + 1)..img.h
    /\ \A y \in PaintedRows(img) : img.px[1][y] = col

\* the cases of C10 other than latency = bad, with the interpolations stated as
\* inequalities: lh is the whole part of the interpolated height (at least 1),
\* each color channel the whole part of the interpolated channel
LineCases(v, H, bad, soBad, img) ==
    IF v.kind \in {"None", "False"} THEN IsIndicator(img, H, BLUE)
    ELSE LET ms == v.ms IN
         IF ms < 1 THEN IsIndicator(img, 1, GREEN)
         ELSE IF ms < bad
         THEN \E lh \in 1..H, r \in 0..255 :
                 /\ IsIndicator(img, lh, << r, 255, 0 >>)
                 /\ lh = 1 \/ 2 * bad * lh <= 2 * bad + (H - 2) * ms
                 /\ lh = H \/ 2 * bad + (H - 2) * ms < 2 * bad * (lh + 1)
                 /\ r * bad <= 255 * ms /\ 255 * ms < (r + 1) * bad
         ELSE IF ms < soBad
         THEN \E lh \in 1..H, g \in 0..255 :
                 /\ IsIndicator(img, lh, << 255, g, 0 >>)
                 /\ lh = 1 \/ 2 * (soBad - bad) * lh <= H * (soBad - bad) + H * (ms - bad)
                 /\ lh = H \/ H * (soBad - bad) + H * (ms - bad) < 2 * (soBad - bad) * (lh + 1)
                 /\ g * (soBad - bad) <= 255 * (soBad - ms)
                 /\ 255 * (soBad - ms) < (g + 1) * (soBad - bad)
         ELSE IsIndicator(img, H, RED)

\* C10 as stated: the five cases, and latency = bad gives height exactly H/2
C10_HalfHeightExactly ==
    line.drawn =>
       LET H == line.img.h IN
       /\ LineCases(line.value, H, config.bad_threshold, config.so_bad_threshold, line.img)
       /\ ( line.value.kind = "float" /\ line.value.ms = config.bad_threshold ) =>
             2 * Cardinality(PaintedRows(line.img)) = H

\* C10 amended: the five cases, and latency = bad gives height floor(H/2), at
\* least 1 (exactly H/2 when H is even), colored YELLOW
C10_HalfHeightFloor ==
    line.drawn =>
       LET H == line.img.h IN
       /\ LineCases(line.value, H, config.bad_threshold, config.so_bad_threshold, line.img)
       /\ ( line.value.kind = "float" /\ line.value.ms = config.bad_threshold ) =>
             IsIndicator(line.img, Max(1, H \div 2), YELLOW)

\* C10 witness: latency = bad drawn on an image of odd height
C10_Witness ==
    /\ line.drawn
    /\ line.value = Ms(config.bad_threshold)
    /\ line.img.h = 3

-----------------------------------------------------------------------------
(* Properties of the session *)

\* prov follows the series: one entry for every entry of pings
ProvFollowsPings ==
    /\ DOMAIN prov = DOMAIN ping_graphs
    /\ \A h \in DOMAIN prov : Len(prov[h]) = Len(ping_graphs[h].pings)

\* C1: no sample of any host's series comes from a PingRunner that was
\* dispatched before a call of stop_pinging and had not finished its probe
\* when that call was made, whatever was started after the stop.
C1_NoSampleFromOvertakenProbe ==
    \A h \in DOMAIN prov :
        \A i \in 1..Len(prov[h]) : ~(prov[h][i].overtaken /\ prov[h][i].probed)

\* C3: every sample of a host's series sits at the position that is the
\* round index of the probe that produced it (positions counted from 0), so
\* ping_timestamps[i] is the timestamp of the round that produced pings[i].
C3_RecordedAtRoundIndex ==
    \A h \in DOMAIN prov :
        \A i \in 1..Len(prov[h]) : prov[h][i].index = i - 1

-----------------------------------------------------------------------------
(* Properties of the pruning pass *)

\* what the claim calls a host that qualifies for removal, on the counters
\* << stat_count, stat_loss_count >> the pass found
Qualifies(counters) == counters[1] = 0 /\ counters[1] + counters[2] > 10

\* the keep-at-least-one guard: one host tracked, or every host qualifying
Blocked(before) ==
    \/ Cardinality(DOMAIN before) <= 1
    \/ \A h \in DOMAIN before : Qualifies(before[h])

C6_NeverEmpties ==
    /\ (clean_log.ran /\ Blocked(clean_log.before)) =>
           clean_log.after = DOMAIN clean_log.before
    /\ clean_log.ran => clean_log.after # {}
    /\ running => DOMAIN ping_graphs # {}

\* a pass found every tracked host qualifying and removed none
C6_Witness ==
    /\ clean_log.ran
    /\ Cardinality(DOMAIN clean_log.before) > 1
    /\ \A h \in DOMAIN clean_log.before : Qualifies(clean_log.before[h])
    /\ clean_log.after = DOMAIN clean_log.before
    /\ running

-----------------------------------------------------------------------------
(* Properties of the running aggregates *)

\* the positions of pings that hold a Success sample
SuccessPositions(pings) == {i \in 1..Len(pings) : IsSuccess(pings[i])}

\* the sum of the latencies at the positions of set
RECURSIVE SumAt(_, _)
SumAt(pings, set) ==
    IF set = {} THEN 0
    ELSE LET i == CHOOSE j \in set : TRUE
         IN pings[i].ms + SumAt(pings, set \ {i})

\* C11: the running aggregates are what a replay of pings computes: stat_count
\* the number of Success samples, stat_loss_count the number of Timeout and
\* Error samples, their sum len(pings), stat_sum the sum of the successful
\* latencies, stat_min and stat_max their extremes, stat_last_valid_ping the
\* most recent successful latency.
C11_AggregatesMatchReplay ==
    \A host \in DOMAIN ping_graphs :
        LET pg == ping_graphs[host]
            succ == SuccessPositions(pg.pings)
            lat == {pg.pings[i].ms : i \in succ}
        IN /\ pg.stat_count = Cardinality(succ)
           /\ pg.stat_loss_count = Len(pg.pings) - Cardinality(succ)
           /\ pg.stat_count + pg.stat_loss_count = Len(pg.pings)
           /\ pg.stat_sum = SumAt(pg.pings, succ)
           /\ pg.stat_min = IF succ = {} THEN PosInf
                            ELSE CHOOSE v \in lat : \A w \in lat : v <= w
           /\ pg.stat_max = IF succ = {} THEN NegInf
                            ELSE CHOOSE v \in lat : \A w \in lat : v >= w
           /\ pg.stat_last_valid_ping =
                 IF succ = {} THEN NoValue
                 ELSE pg.pings[CHOOSE i \in succ : \A j \in succ : j <= i].ms

\* the same with every aggregate that an Error sample can reach left out:
\* attempts are all counted, and a series without Error samples replays exactly
C11_ReplayWithoutErrors ==
    \A host \in DOMAIN ping_graphs :
        LET pg == ping_graphs[host] IN
        /\ pg.stat_count + pg.stat_loss_count = Len(pg.pings)
        /\ (\A i \in 1..Len(pg.pings) : pg.pings[i] # ErrorS) =>
              C11_AggregatesMatchReplay

-----------------------------------------------------------------------------
(* Properties of the rounds and of the PingRunner threads *)

\* how many live PingRunner threads of bag are for host h and tagged index r
RunnersFor(bag, h, r) ==
    LET match == {x \in BagToSet(bag) : x.host_ip = h /\ x.index = r}
    IN BagCardinality([x \in match |-> CopiesIn(x, bag)])

\* every host route discovery can name
AllHosts == UNION {Range(hops) : hops \in HopResults} \ {NoAddr}

\* a step that starts a round: the round counter moves on by one
RoundStarted == ping_round_index' = ping_round_index + 1

\* the live threads of bag as the program has them: host, round tag, position
\* and result, without the history flags
Threads(bag) ==
    LET strip(x) == [host_ip |-> x.host_ip, index |-> x.index, pc |-> x.pc,
                     ping_result |-> x.ping_result]
        same(t) == {x \in BagToSet(bag) : strip(x) = t}
    IN [t \in {strip(x) : x \in BagToSet(bag)} |->
           BagCardinality([x \in same(t) |-> CopiesIn(x, bag)])]

\* a step in which one PingRunner thread ends, and the thread that ends in it
ThreadEnds == BagCardinality(runners') = BagCardinality(runners) - 1
Gone == BagToSet(Threads(runners) (-) Threads(runners'))

\* the last tuple of the queue is the one thread r writes
WroteTuple(r) ==
    /\ Len(result_queue') = Len(result_queue) + 1
    /\ SubSeq(result_queue', 1, Len(result_queue)) = result_queue
    /\ LET t == result_queue'[Len(result_queue')]
       IN t.host_ip = r.host_ip /\ t.index = r.index /\ t.ping_value = r.ping_result

\* C12: a round tick with index r launches exactly one PingRunner tagged r for
\* each tracked host and none for any other host, and no thread is launched
\* otherwise; a PingRunner that ends has written one tuple (host, r, sample)
\* or, only with the stop event set, none; one that finds the stop event clear
\* after its probe goes on to write its tuple.
C12_OneRunnerOneTuple ==
    [][ /\ RoundStarted =>
              /\ \A h \in AllHosts :
                    RunnersFor(runners', h, ping_round_index) =
                       RunnersFor(runners, h, ping_round_index)
                       + (IF h \in DOMAIN ping_graphs' THEN 1 ELSE 0)
              /\ BagCardinality(runners') =
                    BagCardinality(runners) + Cardinality(DOMAIN ping_graphs')
        /\ ~RoundStarted => (ThreadEnds \/ BagCardinality(runners') = BagCardinality(runners))
        /\ Len(result_queue') > Len(result_queue) =>
              ThreadEnds /\ \E r \in Gone : WroteTuple(r)
        /\ ThreadEnds =>
              \A r \in Gone :
                 \/ WroteTuple(r)
                 \/ stop_event /\ r.pc = "post" /\ result_queue' = result_queue
        /\ \A r \in BagToSet(Threads(runners)) :
              ( /\ r.pc = "post"
                /\ ~stop_event
                /\ CopiesIn(r, Threads(runners')) < CopiesIn(r, Threads(runners)) )
              => CopiesIn([r EXCEPT !.pc = "put"], Threads(runners')) >
                 CopiesIn([r EXCEPT !.pc = "put"], Threads(runners))
      ]_vars

\* a round was launched for two tracked hosts, the thread of one has written
\* its tuple and ended, the thread of the other is still alive
C12_Witness ==
    /\ running
    /\ Cardinality(DOMAIN ping_graphs) = 2
    /\ ping_round_index = 1
    /\ Len(result_queue) = 1
    /\ BagCardinality(runners) = 1
    /\ \E r \in BagToSet(runners) :
          r.index = 0 /\ result_queue[1].index = 0 /\ r.host_ip # result_queue[1].host_ip

-----------------------------------------------------------------------------
(* Properties of stop_pinging and start_pinging *)

\* stop_pinging has returned and start_pinging has not been called since:
\* stop_pinging alone sets the stop event and start_pinging alone clears it
Stopped == stop_event

\* C13: once stop_pinging has returned, and until start_pinging is called, no
\* round timer is pending and no round is started: no timestamp is recorded,
\* no PingRunner launched, ping_round_index not incremented; a route discovery
\* still in progress at the stop does not change that when it ends.
C13_NoRoundAfterStop ==
    [][ /\ Stopped' =>
              /\ after_ticks' = {}
              /\ scheduled_ping_after_id' = 0
              /\ ~running'
        /\ (Stopped /\ Stopped') =>
              /\ ping_round_index' = ping_round_index
              /\ ping_timestamps' = << >>
              /\ BagCardinality(runners') <= BagCardinality(runners)
              /\ DOMAIN ping_graphs' = {}
      ]_vars

\* the session was stopped while running (threads of its rounds are alive),
\* started again and stopped while its route discovery is in progress
C13_Witness ==
    /\ Stopped
    /\ BagCardinality(tracers) > 0
    /\ BagCardinality(runners) > 0


\* C14: stop_pinging called in any state reached after an earlier call, with
\* no start in between, leaves the running flag, the stop event, the timer
\* handle and timer, the tracked hosts, their order, the round timestamps, the
\* round counter and the result queue as they are.
C14_StopIdempotent ==
    Stopped =>
       LET again == stop_pinging(App) IN
       /\ again.running = running
       /\ again.stop_event = stop_event
       /\ again.scheduled_ping_after_id = scheduled_ping_after_id
       /\ again.after_ticks = after_ticks
       /\ again.ping_graphs = ping_graphs
       /\ again.ping_order = ping_order
       /\ again.ping_timestamps = ping_timestamps
       /\ again.ping_round_index = ping_round_index
       /\ again.result_queue = result_queue
       /\ stop_pinging(again) = again

\* a stopped session in which a deferred stop_pinging is still to come, with
\* a result in the queue and a thread alive
C14_Witness ==
    /\ Stopped
    /\ after_stop > 0
    /\ result_queue # << >>
    /\ BagCardinality(runners) > 0


\* what start_pinging leaves of an earlier session when it begins a new one
ClearedAndBegun(s) ==
    /\ s.after_ticks = {}
    /\ s.scheduled_ping_after_id = 0
    /\ s.ping_graphs = NoGraphs
    /\ s.ping_order = << >>
    /\ s.ping_timestamps = << >>
    /\ s.ping_round_index = 0
    /\ BagCardinality(s.tracers) = BagCardinality(tracers) + 1

\* C15 as the claim has it: start_pinging called while a session is running
\* stops and clears that session and begins a new one.
C15_StartWhileRunningRestarts ==
    running => ClearedAndBegun(start_pinging(App, "host"))

\* C15: start_pinging called while a session is running returns at once and
\* changes nothing; called in any other state it stops and clears what is
\* left of the previous session (timer, tracked hosts, order, timestamps,
\* round counter, result queue) before it begins the new one; at most one
\* round timer is pending at any time.
C15_StartIgnoredWhileRunning ==
    /\ running => \A target \in {"", "host"} : start_pinging(App, target) = App
    /\ ~running =>
          LET s == start_pinging(App, "host") IN
          /\ ClearedAndBegun(s)
          /\ s.result_queue = << >>
          /\ ~s.running /\ ~s.stop_event
    /\ Cardinality(after_ticks) <= 1
    /\ after_ticks \subseteq {scheduled_ping_after_id}

\* a new session has begun (its route discovery is in progress) over the
\* remains of a previous one, whose threads are still alive
C15_Witness ==
    /\ ~running /\ ~stop_event
    /\ BagCardinality(tracers) > 0
    /\ BagCardinality(runners) > 0
    /\ ping_round_index = 0
    /\ DOMAIN ping_graphs = {}

-----------------------------------------------------------------------------
(* The settings: a session started with any command line, the user typing  *)
(* into the option entries.  The PingRunner threads never read or write    *)
(* the configuration object and are left at their first step here.         *)

\* most edits of the option entries in a behaviour
MaxEdits == 2

\* what argparse hands over: --ping-rate and --ping-timeout are floats,
\* --ping-size and the thresholds ints, none of them checked against a range
CliRates == { 0, 100, NaN }
CliTimeouts == { 0, 100 }
CliSizes == { -1, 1 }
CliBads == { 0, 100, 6000 }
CliSoBads == { 50, 200 }

\* what the user types into each option entry
TypedTexts ==
    [rate |-> { JunkText, NanText, FloatText(2500) },
     timeout |-> { NanText, FloatText(0), FloatText(50) },
     size |-> { FloatText(1), IntText(-1), IntText(64) },
     bad |-> { JunkText, NanText, IntText(0), IntText(300) },
     sobad |-> { NanText, IntText(100), IntText(200), IntText(6000) }]

InitSettings ==
    /\ config \in [ping_rate : CliRates, ping_timeout : CliTimeouts,
                   ping_size : CliSizes, bad_threshold : CliBads,
                   so_bad_threshold : CliSoBads]
    /\ running = FALSE
    /\ stop_event = FALSE
    /\ scheduled_ping_after_id = 0
    /\ after_ticks = {}
    /\ next_after_id = 1
    /\ after_clean = 0
    /\ after_stop = 0
    /\ after_poll = 1
    /\ ping_graphs = NoGraphs
    /\ ping_order = << >>
    /\ ping_timestamps = << >>
    /\ ping_round_index = 0
    /\ result_queue = << >>
    /\ runners = EmptyBag
    /\ tracers = EmptyBag
    /\ start_button = "normal"
    /\ stop_button = "disabled"
    /\ canvas_width = SessionWidth
    /\ canvas_height = SessionHeight
    /\ clock = 0
    /\ prov = [h \in {} |-> << >>]
    /\ clean_log = NoCleanLog
    /\ drain_log = NoDrainLog
    /\ entries = options_of(config)
    /\ edits = 0
    /\ line = NoLine

\* the user types into one option entry
EditEntry ==
    /\ edits < MaxEdits
    /\ edits' = edits + 1
    /\ \E f \in DOMAIN TypedTexts : \E t \in TypedTexts[f] :
           entries' = [entries EXCEPT ![f] = t]
    /\ UNCHANGED << config, running, stop_event, scheduled_ping_after_id,
                    after_ticks, next_after_id, after_clean, after_stop, after_poll,
                    ping_graphs, ping_order, ping_timestamps, ping_round_index,
                    result_queue, runners, tracers, start_button, stop_button,
                    canvas_width, canvas_height, clock, prov, clean_log,
                    drain_log, line >>

\* <FocusOut> or <Return> of the bad or the so-bad entry: _read_settings()
ThresholdEntryLeft ==
    /\ SetApp(read_settings(App))
    /\ UNCHANGED env_vars

\* <FocusOut> or <Return> of the rate entry: update_rate_label()
RateEntryLeft ==
    /\ SetApp(update_rate_label(App))
    /\ UNCHANGED env_vars

NextSettings ==
    \/ EditEntry
    \/ ThresholdEntryLeft
    \/ RateEntryLeft
    \/ UserStart
    \/ UserStop
    \/ DeferredStop
    \/ TracerouteResult
    \/ Tick

SpecSettings == InitSettings /\ [][NextSettings]_vars

-----------------------------------------------------------------------------
(* Properties of the settings *)

\* C16: whenever a round tick runs, the bad threshold of the configuration is
\* below its so-bad threshold, whatever the command line gave and whatever
\* the threshold entries hold.
C16_ThresholdsOrderedAtTick ==
    [][ RoundStarted => Lt(config.bad_threshold, config.so_bad_threshold) ]_vars

\* a round has run in a session whose command line gave a bad threshold above
\* the so-bad one and above the bounds, the entries left as they were
C16_Witness ==
    /\ ping_round_index >= 1
    /\ config.bad_threshold = 6000
    /\ config.so_bad_threshold = 6000 + SoBadMargin
    /\ edits = 0


\* the settings are what the probes need: a rate within the bounds, a
\* positive timeout, a size that is not negative, a positive bad threshold
SettingsValid(c) ==
    /\ Le(MinRate, c.ping_rate) /\ Le(c.ping_rate, MaxRate)
    /\ Gt(c.ping_timeout, 0)
    /\ c.ping_size >= 0
    /\ Gt(c.bad_threshold, 0)

\* _process_traceroute_results() starts the rounds of a session
FirstRoundScheduled == ~running /\ running'

\* C17: when the first round of a session is scheduled the configuration holds
\* a rate from 0.01 to 50, a positive timeout, a size that is not negative and
\* a positive bad threshold, whatever the command line gave and whatever the
\* option entries hold.
C17_SettingsValidAtFirstRound ==
    [][ FirstRoundScheduled => SettingsValid(config') ]_vars

\* the rate alone is within its bounds at the first round of every session
\* whose rate entry does not read as nan
C17_RateClampedUnlessNan ==
    [][ FirstRoundScheduled =>
            \/ config'.ping_rate = NaN
            \/ Le(MinRate, config'.ping_rate) /\ Le(config'.ping_rate, MaxRate) ]_vars


-----------------------------------------------------------------------------
(* Properties of process_ping_results *)

\* the values of the tuples of host h in a queue, in queue order
RECURSIVE ValuesFor(_, _)
ValuesFor(q, h) ==
    IF q = << >> THEN << >>
    ELSE IF Head(q).host_ip = h
         THEN << Head(q).ping_value >> \o ValuesFor(Tail(q), h)
         ELSE ValuesFor(Tail(q), h)

\* C18: a pass of process_ping_results takes every tuple of the queue; a tuple
\* of a host that is not tracked changes nothing: the tracked set and the
\* order of the graphs stay, and every tracked host's graph (series,
\* aggregates and raster) is what add_ping of its own tuples makes of it,
\* wherever in the queue the tuples of untracked hosts stand.
C18_UntrackedTupleDiscarded ==
    [][ ProcessPingResults =>
            /\ result_queue' = << >>
            /\ DOMAIN ping_graphs' = DOMAIN ping_graphs
            /\ ping_order' = ping_order
            /\ \A h \in DOMAIN ping_graphs :
                   ping_graphs'[h] =
                       add_all(ping_graphs[h], ValuesFor(result_queue, h), 1,
                               canvas_width, canvas_height, config) ]_vars

\* a pass has discarded a tuple of an untracked host and then taken a tuple of
\* a tracked one
C18_Witness ==
    /\ drain_log.ran
    /\ drain_log.discarded >= 1
    /\ drain_log.kept_after >= 1

\* C19: a pass of process_ping_results appends to every host's pings the values
\* of that host's tuples in the order they stand in the queue, all of them and
\* nothing else, whatever round indices the tuples carry.
C19_SeriesInDequeueOrder ==
    [][ ProcessPingResults =>
            \A h \in DOMAIN ping_graphs :
                ping_graphs'[h].pings =
                    ping_graphs[h].pings \o ValuesFor(result_queue, h) ]_vars

\* a host's series holds the sample of a later round before the sample of an
\* earlier one, the later round's tuple having reached the queue first
C19_Witness ==
    /\ drain_log.ran
    /\ \E h \in DOMAIN prov :
           \E i \in 1..(Len(prov[h]) - 1) : prov[h][i].index > prov[h][i + 1].index


\* how many values of a sequence of samples are of the given kinds
RECURSIVE CountKinds(_, _)
CountKinds(values, kinds) ==
    IF values = << >> THEN 0
    ELSE (IF Head(values).kind \in kinds THEN 1 ELSE 0)
         + CountKinds(Tail(values), kinds)

\* C20: the Error sample (False) a PingRunner posts for a probe that raised or
\* returned something unexpected is counted as a loss of its host: a pass of
\* process_ping_results raises every host's stat_loss_count by the number of
\* Error and Timeout samples among that host's tuples.
C20_ErrorCountedAsLoss ==
    [][ ProcessPingResults =>
            \A h \in DOMAIN ping_graphs :
                ping_graphs'[h].stat_loss_count =
                    ping_graphs[h].stat_loss_count
                    + CountKinds(ValuesFor(result_queue, h), {"False", "None"}) ]_vars

\* the rest of what is said of a failed probe: its thread ends having written
\* its Error tuple like any other result, or with the stop event set none; the
\* tuple reaches the series of its own host, and a pass changes no graph of a
\* host it holds no tuple for; Timeout samples are counted as losses
C20_ErrorPostedForItsHostOnly ==
    [][ /\ ThreadEnds =>
              \A r \in Gone :
                  r.ping_result = ErrorS =>
                      \/ WroteTuple(r)
                      \/ stop_event /\ result_queue' = result_queue
        /\ ProcessPingResults =>
              \A h \in DOMAIN ping_graphs :
                  /\ ValuesFor(result_queue, h) = << >> =>
                         ping_graphs'[h] = ping_graphs[h]
                  /\ CountKinds(ping_graphs'[h].pings, {"False"}) =
                         CountKinds(ping_graphs[h].pings, {"False"})
                         + CountKinds(ValuesFor(result_queue, h), {"False"})
                  /\ ping_graphs'[h].stat_loss_count =
                         ping_graphs[h].stat_loss_count
                         + CountKinds(ValuesFor(result_queue, h), {"None"}) ]_vars


-----------------------------------------------------------------------------
(* Properties of a PingGraph whose canvas loses and regains its width *)

\* the raster of pg shows the window of the first k samples of pings: the
\* cursor is min(current_width, k), the columns before it hold the last
\* samples up to the k-th in order, the columns from it on are blank
ShowsWindowOf(pg, k) ==
    LET c == Min(pg.current_width, k)
    IN /\ pg.pil_image # NoImage
       /\ pg.current_buffer_index = c
       /\ \A j \in 0..(c - 1) :
              Column(pg, j) = Render(pg.pings[k - c + j + 1], pg.pil_image.h)
       /\ \A j \in c..(pg.current_width - 1) :
              Column(pg, j) = [y \in 1..pg.pil_image.h |-> BLACK]

\* the raster of pg is as it was left when some of the samples of pings, the
\* newest ones, were appended with no width to draw them on
StaleBy(pg) ==
    { m \in 0..Len(pg.pings) : ShowsWindowOf(pg, Len(pg.pings) - m) }

\* C21: in every state with a canvas of valid dimensions, on_resize of a graph
\* whose raster held the window before samples were appended on a canvas
\* without width, or that has no raster, leaves the raster showing the window
\* of all of pings, also when the dimensions are the ones the buffer had
\* before the canvas lost its width.
C21_ResizeShowsSamplesAddedWithoutWidth ==
    \A host \in DOMAIN ping_graphs :
        LET pg == ping_graphs[host]
        IN ( /\ canvas_width > 0
             /\ \/ pg.pil_image = NoImage
                \/ StaleBy(pg) # {} )
           => ShowsWindowOf(on_resize(pg, canvas_width, canvas_height, config),
                            Len(pg.pings))

\* the rest of what is said of a canvas without width: add_ping appends the
\* sample and updates the aggregates as ever and leaves raster and cursor as
\* they were; and a resize to dimensions other than the buffer's brings back
\* the window of all of pings
C21_AddPingWithoutWidth ==
    [][ /\ ( GraphAddPing /\ canvas_width <= 0 ) =>
              LET pg == ping_graphs[TheHost]
                  pg2 == ping_graphs'[TheHost]
                  v == pg2.pings[Len(pg2.pings)]
              IN /\ Len(pg2.pings) = Len(pg.pings) + 1
                 /\ SubSeq(pg2.pings, 1, Len(pg.pings)) = pg.pings
                 /\ pg2 = [update_statistics(pg, v) EXCEPT !.pings = pg2.pings]
                 /\ pg2.pil_image = pg.pil_image
                 /\ pg2.current_buffer_index = pg.current_buffer_index
        /\ ( /\ GraphOnResize
             /\ canvas_width > 0
             /\ << canvas_width, canvas_height >> #
                   << ping_graphs[TheHost].current_width,
                      ping_graphs[TheHost].current_height >> )
           => ShowsWindowOf(ping_graphs'[TheHost], Len(ping_graphs'[TheHost].pings)) ]_vars


-----------------------------------------------------------------------------
(* Properties of the statistics text *)

C23_ResizeRebuildsFromPings ==
    \A host \in DOMAIN ping_graphs :
        \A W \in 1..MaxWidth, H \in 1..MaxHeight :
            LET pg == ping_graphs[host]
                r == on_resize(pg, W, H, config)
            IN IF W = pg.current_width /\ H = pg.current_height
                  /\ pg.pil_image # NoImage
               THEN r = pg
               ELSE /\ r.current_width = W /\ r.current_height = H
                    /\ r.pil_image.w = W /\ r.pil_image.h = H
                    /\ ShowsWindowOf(r, Len(pg.pings))
                    /\ r = [pg EXCEPT !.pil_image = r.pil_image,
                                      !.current_width = W,
                                      !.current_height = H,
                                      !.current_buffer_index = r.current_buffer_index]

\* a graph with more samples than columns whose raster does not show the
\* window, on a canvas of other dimensions than the buffer's: the resize that
\* is due rebuilds the raster from pings alone
C23_Witness ==
    LET pg == ping_graphs[TheHost]
    IN /\ pg.pil_image # NoImage
       /\ Len(pg.pings) > canvas_width
       /\ ~ShowsWindowOf(pg, Len(pg.pings))
       /\ << canvas_width, canvas_height >> # << pg.current_width, pg.current_height >>
       /\ ShowsWindowOf(on_resize(pg, canvas_width, canvas_height, config),
                        Len(pg.pings))


-----------------------------------------------------------------------------
(* Properties of rounds that overlap *)

\* C24: in every state of a running session that tracks a host, whatever
\* PingRunner threads of earlier rounds are alive, schedule_next_ping_round
\* starts the next round: the round counter moves on, one thread is started
\* for every tracked host and every thread alive stays as it is; and in every
\* state the pass of process_ping_results appends to the series of every
\* tracked host the values of all its tuples in the queue, those of rounds
\* before the newest one included.
C24_RoundsOverlap ==
    /\ ( running /\ ~stop_event /\ DOMAIN ping_graphs # {} ) =>
          LET a == schedule_next_ping_round(App)
          IN /\ a.ping_round_index = ping_round_index + 1
             /\ runners \sqsubseteq a.runners
             /\ BagCardinality(a.runners) =
                   BagCardinality(runners) + Cardinality(DOMAIN ping_graphs)
             /\ \A h \in DOMAIN ping_graphs :
                   RunnersFor(a.runners, h, ping_round_index) =
                       RunnersFor(runners, h, ping_round_index) + 1
    /\ LET a == process_ping_results(App)
       IN \A h \in DOMAIN ping_graphs :
             /\ h \in DOMAIN a.ping_graphs
             /\ Len(a.ping_graphs[h].pings) =
                   Len(ping_graphs[h].pings)
                   + Cardinality({ i \in 1..Len(result_queue) :
                                       result_queue[i].host_ip = h })
             /\ \A i \in 1..Len(result_queue) :
                   ( result_queue[i].host_ip = h
                     /\ result_queue[i].index < ping_round_index - 1 ) =>
                       \E k \in (Len(ping_graphs[h].pings) + 1)
                                   ..Len(a.ping_graphs[h].pings) :
                           a.ping_graphs[h].pings[k] = result_queue[i].ping_value

\* in a running session the second round was started while a probe of the
\* first was pending: its sample was appended to its host's series after the
\* sample of the second round
C24_Witness ==
    /\ running /\ ~stop_event
    /\ ping_round_index = 2
    /\ \E h \in DOMAIN prov :
          /\ Len(prov[h]) = 2
          /\ prov[h][1].index = 1 /\ prov[h][2].index = 0
          /\ ~prov[h][1].overtaken /\ ~prov[h][2].overtaken


-----------------------------------------------------------------------------
(* Route discovery across a restart: Start may be pressed again while the  *)
(* do_trace_route thread of a stopped session has not delivered its hops.  *)
(* The PingRunner threads never touch ping_order and are left at their     *)
(* first step here.                                                        *)

\* most route discoveries in flight at once when the restart is followed
MaxRouteTracers == 2

\* the Start button or the Return key, a route discovery of an earlier start
\* still being under way
UserStartDuringTrace ==
    /\ start_button = "normal"
    /\ BagCardinality(tracers) < MaxRouteTracers
    /\ \E target \in {"", "host"} : SetApp(start_pinging(App, target))
    /\ UNCHANGED env_vars

NextRoute ==
    \/ UserStartDuringTrace
    \/ UserStop
    \/ DeferredStop
    \/ TracerouteResult
    \/ Tick

SpecRoute == Init /\ [][NextRoute]_vars

-----------------------------------------------------------------------------
(* Properties of ping_order *)

\* s is t with some entries left out, the others in their order
RECURSIVE IsSubsequence(_, _)
IsSubsequence(s, t) ==
    IF s = << >> THEN TRUE
    ELSE IF t = << >> THEN FALSE
    ELSE IF Head(s) = Head(t) THEN IsSubsequence(Tail(s), Tail(t))
    ELSE IsSubsequence(s, Tail(t))

\* C25: ping_order is an order-preserving subsequence of the hops one route
\* discovery returned, the hops without an address left out.
C25_OrderFollowsRoute ==
    \E hops \in HopResults : IsSubsequence(ping_order, valid_hops(hops))

\* what fills and what shortens ping_order: _process_traceroute_results
\* appends the hops that have an address, in hop order, to the order it
\* finds; every other step leaves ping_order as it is, empties it, or takes
\* entries out of it without moving the others
C25_OrderFilledInHopOrder ==
    [][ \/ \E hops \in HopResults : ping_order' = ping_order \o valid_hops(hops)
        \/ IsSubsequence(ping_order', ping_order) ]_vars


-----------------------------------------------------------------------------
(* Properties of add_ping on a loss *)

\* the aggregates that only a success may move
SuccessAggregates(pg) ==
    << pg.stat_count, pg.stat_sum, pg.stat_min, pg.stat_max,
       pg.stat_last_valid_ping, pg.stat_jitter_sum, pg.stat_jitter_count >>

\* add_ping of a sample of one of the kinds counts one loss and nothing else
LossCounted(kinds) ==
    LET pg == ping_graphs[TheHost]
        pg2 == ping_graphs'[TheHost]
    IN ( GraphAddPing /\ pg2.pings[Len(pg2.pings)].kind \in kinds ) =>
          /\ pg2.pings = Append(pg.pings, pg2.pings[Len(pg2.pings)])
          /\ pg2.stat_loss_count = pg.stat_loss_count + 1
          /\ SuccessAggregates(pg2) = SuccessAggregates(pg)

\* C26: an add_ping of a Timeout or of an Error sample increments
\* stat_loss_count by one, appends to pings, and leaves stat_count, stat_sum,
\* stat_min, stat_max, stat_last_valid_ping, stat_jitter_sum and
\* stat_jitter_count unchanged.
C26_LossTouchesLossCountOnly ==
    [][ LossCounted({"None", "False"}) ]_vars

\* the same of a Timeout sample alone
C26_TimeoutTouchesLossCountOnly ==
    [][ LossCounted({"None"}) ]_vars

-----------------------------------------------------------------------------
(* C27: draw_line_on_image is total on its domain *)

\* the painted pixels of an image, as (column, row) pairs counted from 0
PaintedCells(img) ==
    {c \in (0..(img.w - 1)) \X (0..(img.h - 1)) : img.px[c[1] + 1][c[2] + 1] # BLACK}

\* C27: for every sample (a latency >= 0, Timeout, Error), thresholds with
\* 0 < bad < soBad and buffer height H >= 1, draw_line_on_image paints, on a
\* blank buffer, exactly the rows H-lh .. H-1 of the given column for some
\* lh with 1 <= lh <= H, in one color, and no pixel of another column
C27_IndicatorWithinColumn ==
    line.drawn =>
        /\ \E lh \in 1..line.img.h, col \in {BLUE, GREEN, YELLOW, RED}
                     \cup {line.img.px[1][line.img.h]} :
               /\ col # BLACK
               /\ IsIndicator(line.img, lh, col)
        /\ \A x \in 0..1 :
               LET H == canvas_height
                   img == draw_line_on_image(x, line.value, NewImage(2, H), config)
               IN \E lh \in 1..H :
                      PaintedCells(img) = {x} \X ((H - lh)..(H - 1))

\* a latency between the thresholds on a buffer one pixel high: the interpolated
\* height is 0 and the final clamp makes it 1
C27_Witness ==
    /\ line.drawn
    /\ canvas_height = 1
    /\ IsNumber(line.value)
    /\ NumVal(line.value) >= config.bad_threshold
    /\ NumVal(line.value) < config.so_bad_threshold
    /\ line_style(line.value, 1, config.bad_threshold, config.so_bad_threshold).lh = 0
    /\ PaintedRows(line.img) = {1}

-----------------------------------------------------------------------------
(* C28: the router's poll *)

\* Tk's main loop runs every timer that is due, and process_ping_results
\* returns: a pending poll with results to take is eventually run
MaxPollClock == 2
MaxPollRunners == 1

\* a round tick, within the bounds of this specification
PollTick ==
    /\ Tick
    /\ clock' <= MaxPollClock
    /\ BagCardinality(runners') <= MaxPollRunners

\* a route discovery result, within the bounds of this specification
PollTracerouteResult ==
    /\ TracerouteResult
    /\ clock' <= MaxPollClock
    /\ BagCardinality(runners') <= MaxPollRunners

NextPoll ==
    \/ UserStart
    \/ UserStop
    \/ DeferredStop
    \/ PollTracerouteResult
    \/ PollTick
    \/ ProcessPingResults
    \/ RunnerStart
    \/ RunnerPing
    \/ RunnerCheck
    \/ RunnerPut

SpecPoll == Init /\ [][NextPoll]_vars /\ WF_vars(ProcessPingResults)

\* the tuples of the queue that name host h
TuplesFor(q, h) == {i \in 1..Len(q) : q[i].host_ip = h}

\* a poll takes every tuple of the queue, applying those of tracked hosts and
\* discarding the others, and leaves one poll pending
PollTakesEveryTuple ==
    [][ ProcessPingResults =>
          /\ result_queue' = << >>
          /\ after_poll' = 1
          /\ drain_log'.discarded =
                 Cardinality({i \in 1..Len(result_queue) :
                                 result_queue[i].host_ip \notin DOMAIN ping_graphs})
          /\ \A h \in DOMAIN ping_graphs :
                 Len(prov'[h]) = Len(prov[h])
                                 + Cardinality(TuplesFor(result_queue, h)) ]_vars

\* one poll is pending whatever the session's state, and a poll of an empty
\* queue returns at once, changing nothing and pending again
PollAlwaysPending ==
    /\ after_poll = 1
    /\ result_queue = << >> =>
          LET a == process_ping_results([App EXCEPT !.after_poll = @ - 1])
          IN /\ a.result_queue = << >>
             /\ a.ping_graphs = ping_graphs
             /\ a.after_poll = 1

\* C28: each poll removes every tuple present in the result queue, never
\* blocks on an empty queue and always reschedules itself, whatever the
\* session's state; hence a queue that holds tuples is eventually empty: every
\* tuple written to it is eventually consumed, applied or discarded
C28_EveryTupleConsumed ==
    /\ PollTakesEveryTuple
    /\ []PollAlwaysPending
    /\ (result_queue # << >>) ~> (result_queue = << >>)

\* a thread wrote its tuple after the session was stopped, and polls have run
C28_Witness ==
    /\ ~running
    /\ result_queue # << >>
    /\ drain_log.ran
    /\ after_poll = 1

-----------------------------------------------------------------------------
(* C29: one timestamp per round *)

\* s is t or a beginning of t
IsPrefix(s, t) == Len(s) <= Len(t) /\ SubSeq(t, 1, Len(s)) = s

\* C29: a tick that starts a round appends one timestamp and moves the round
\* counter on by one, so that in every state of a running session there are as
\* many timestamps as the round counter says; the counter is 0 when a session's
\* first round starts and only grows until the session ends, and the timestamps recorded stay in
\* their places, unmodified, until stop or the next start
C29_OneTimestampPerRound ==
    /\ [](running => Len(ping_timestamps) = ping_round_index)
    /\ [][ RoundStarted =>
             /\ ping_timestamps' = Append(ping_timestamps, clock)
             /\ Len(ping_timestamps') = ping_round_index' ]_vars
    /\ [][ (running /\ running') =>
             /\ ping_round_index' \in {ping_round_index, ping_round_index + 1}
             /\ IsPrefix(ping_timestamps, ping_timestamps') ]_vars
    /\ [][ (~running /\ running') =>
             /\ ping_round_index = 0
             /\ ping_timestamps = << >>
             /\ RoundStarted ]_vars

\* a running session, its first round done, after an earlier session that ran
\* a round and was stopped
C29_Witness ==
    /\ running
    /\ ping_round_index = 1
    /\ Len(ping_timestamps) = 1
    /\ ping_timestamps[1] > 0

-----------------------------------------------------------------------------
(* C30: the hover lookup and the raster's own width *)

\* C30: in every state where the raster shows the window of pings at the width
\* it was built with, also between a change of the canvas's width and the
\* rebuild, on_mouse_move at column x reports the sample drawn in raster column
\* x, the one target_index gives for the buffer's own width, and reports none
\* for a column that shows none
C30_HoverReportsDrawnSample ==
    \A host \in DOMAIN ping_graphs :
        LET pg == ping_graphs[host]
            n == Len(pg.pings)
        IN ( canvas_width > 0 /\ n > 0 /\ ShowsWindowOf(pg, n) ) =>
              \A x \in 0..(Max(canvas_width, pg.current_width) - 1) :
                 LET label == on_mouse_move(pg, x, canvas_width,
                                            ping_timestamps).info_label
                     drawn == target_index(n, pg.current_width, x)
                 IN IF drawn >= 0
                    THEN label.mode = "hover" /\ label.index = drawn
                    ELSE label = StatsLabel

\* the same lookup in the states where the canvas has the width of the buffer
C30_HoverReportsDrawnSampleAtBufferWidth ==
    \A host \in DOMAIN ping_graphs :
        LET pg == ping_graphs[host]
            n == Len(pg.pings)
        IN ( canvas_width = pg.current_width /\ n > 0 /\ ShowsWindowOf(pg, n) ) =>
              \A x \in 0..(pg.current_width - 1) :
                 LET label == on_mouse_move(pg, x, canvas_width,
                                            ping_timestamps).info_label
                     drawn == target_index(n, pg.current_width, x)
                 IN IF drawn >= 0
                    THEN /\ label.mode = "hover" /\ label.index = drawn
                         /\ Column(pg, x) = Render(pg.pings[drawn + 1], pg.pil_image.h)
                    ELSE label = StatsLabel

-----------------------------------------------------------------------------
(* C31: what stop_pinging resets *)

\* what stop_pinging leaves in every case: no tracked host, no host order, no
\* round timestamp, running false, the stop event set, no round timer stored
StoppedState(a) ==
    /\ a.ping_graphs = NoGraphs
    /\ a.ping_order = << >>
    /\ a.ping_timestamps = << >>
    /\ ~a.running
    /\ a.stop_event
    /\ a.scheduled_ping_after_id = 0

\* C31 as stated: after stop_pinging, from any state, the host set, the host
\* order and the timestamps are empty, the result queue is empty, the round
\* counter is 0, running is false and the stop event is set
C31_StopResetsEverything ==
    LET a == stop_pinging(App)
    IN /\ StoppedState(a)
       /\ a.result_queue = << >>
       /\ a.ping_round_index = 0

\* C31: after stop_pinging, from any state, the host set, the host order and
\* the timestamps are empty, running is false and the stop event is set; the
\* result queue and the round counter are as they were before the call
C31_StopKeepsQueueAndRound ==
    LET a == stop_pinging(App)
    IN /\ StoppedState(a)
       /\ a.result_queue = result_queue
       /\ a.ping_round_index = ping_round_index

\* a stopped session whose round counter and result queue are not reset
C31_Witness ==
    /\ StoppedState(App)
    /\ ping_round_index > 0
    /\ result_queue # << >>

-----------------------------------------------------------------------------
(* C32, C36: route discoveries that fail, and ones a stop overtook *)

\* what a failed route discovery posts: nothing (also when trace_route raises),
\* or hops none of which has an address
FailedHops == { << >>, << NoAddr >>, << NoAddr, NoAddr >> }

\* _process_traceroute_results(hops) run for the discovery t in state App
ResultOf(t, hops) ==
    process_traceroute_results([App EXCEPT !.tracers = @ (-) One(t)], hops)

\* C32: when the route discovery the running start requested fails (raises,
\* no hops, or only hops without an address), the session is not Running
\* afterwards, holds no round timestamp, no PingRunner was launched, and a
\* deferred stop_pinging is pending
C32_FailedDiscoveryNeverRuns ==
    \A t \in BagToSet(tracers), hops \in FailedHops :
        ~t.overtaken =>
            LET a == ResultOf(t, hops)
            IN /\ ~a.running
               /\ a.ping_timestamps = << >>
               /\ a.runners = runners
               /\ a.after_stop = after_stop + 1

-----------------------------------------------------------------------------
(* C33: when a pruning pass is requested and when it runs *)

\* round indices a tick is tried at
PruneRounds == {0, 1, 10, 11, 50, 99, 100, 101, 150, 199, 200, 201, 300}

\* the tick of round k asks for a pruning pass: k is a positive multiple of 100
AsksForPass(k) == k > 0 /\ k % 100 = 0

\* the tick of a running session in state App, were its round index k
TickAt(k) == schedule_next_ping_round([App EXCEPT !.ping_round_index = k])

\* C33: a tick that starts a round asks for one pruning pass when its round
\* index is a positive multiple of 100 and for none otherwise (round 0
\* included); the tick itself removes no host and runs no pass, the pass is a
\* later callback; and a pass that fires when the session is not running
\* changes nothing
C33_PruningPassRequested ==
    /\ []( ( running /\ ~stop_event /\ ping_graphs # NoGraphs ) =>
             \A k \in PruneRounds :
                 /\ TickAt(k).after_clean
                        = after_clean + (IF AsksForPass(k) THEN 1 ELSE 0)
                 /\ TickAt(k).ping_graphs = ping_graphs
                 /\ TickAt(k).ping_order = ping_order
                 /\ TickAt(k).clean_log = clean_log )
    /\ [][ (Tick /\ RoundStarted) =>
             /\ after_clean' = after_clean
                                + (IF AsksForPass(ping_round_index) THEN 1 ELSE 0)
             /\ DOMAIN ping_graphs' = DOMAIN ping_graphs
             /\ clean_log' = clean_log ]_vars
    /\ []( ~running =>
             clean_unpingable([App EXCEPT !.after_clean = @ - 1])
                = [App EXCEPT !.after_clean = @ - 1] )

\* the tick of round 100 asked for a pass, the session was stopped, and the
\* pass fired afterwards without running
C33_Witness ==
    /\ ~running
    /\ ping_round_index = CleanEvery + 1
    /\ after_clean = 0
    /\ ~clean_log.ran

-----------------------------------------------------------------------------
(* C34: the scheduler goes on while the session runs *)

\* C34: in every state of a running session a round timer is pending, so that
\* every round tick is followed by another one until stop_pinging is called,
\* whatever the probes returned
C34_RunningHasRoundTimer ==
    running =>
        /\ scheduled_ping_after_id # 0
        /\ scheduled_ping_after_id \in after_ticks

\* every step that starts a round at a ping rate that is a positive number
\* leaves the timer of the next round pending
C34_RoundAtValidRateSetsTimer ==
    [][ ( RoundStarted /\ ~delay_raises(config.ping_rate) ) =>
          /\ running'
          /\ scheduled_ping_after_id' # 0
          /\ scheduled_ping_after_id' \in after_ticks' ]_vars

-----------------------------------------------------------------------------
(* C35: what ends a running session *)

\* C35: a running session ends only by the user's stop or by a round tick that
\* finds no host; the deferred stop_pinging that a failed route discovery left
\* pending never ends it. (A start waits here for the discovery before it to
\* return, so a deferred stop pending over a running session was scheduled
\* before that session was started.)
C35_OnlyOwnStopEndsSession ==
    [][ ( running /\ ~running' ) => ( ( UserStop \/ Tick ) /\ ~DeferredStop ) ]_vars


\* the steps that end a running session: the user's stop, a round tick, or a
\* deferred stop_pinging
C35_WhatEndsSession ==
    [][ ( running /\ ~running' ) => ( UserStop \/ Tick \/ DeferredStop ) ]_vars

-----------------------------------------------------------------------------
(* C36: the result of a route discovery that a stop overtook *)

\* C36: the result of a route discovery that was stopped before it returned
\* is never applied, whatever it holds and also after a new start cleared the
\* stop event: it creates no graph, does not set running and starts no round
C36_OvertakenDiscoveryNotApplied ==
    \A t \in BagToSet(tracers), hops \in HopResults :
        t.overtaken =>
            LET a == ResultOf(t, hops)
            IN /\ DOMAIN a.ping_graphs \subseteq DOMAIN ping_graphs
               /\ a.ping_order = ping_order \/ a.ping_order = << >>
               /\ a.running => running
               /\ a.ping_round_index = ping_round_index
               /\ a.after_ticks \subseteq after_ticks
               /\ a.runners = runners

\* the same while the stop that overtook the discovery is the last thing the
\* user did: the stop event is still set
C36_OvertakenDiscoveryNotAppliedWhileStopped ==
    \A t \in BagToSet(tracers), hops \in HopResults :
        ( t.overtaken /\ stop_event ) =>
            LET a == ResultOf(t, hops)
            IN /\ a.ping_graphs = NoGraphs
               /\ ~a.running
               /\ a.ping_round_index = ping_round_index
               /\ a.after_ticks \subseteq after_ticks
               /\ a.runners = runners

-----------------------------------------------------------------------------
(* C37: ping_order and the keys of ping_graphs *)

\* routes on which one address answers at more than one hop
RepeatedHops == { << "h1", "h1" >>, << "h1", "h2", "h1" >>, << NoAddr, "h2", "h2" >> }

\* order names each tracked host once and nothing else
OrderMatchesGraphs(order, graphs) ==
    /\ \A i, j \in 1..Len(order) : order[i] = order[j] => i = j
    /\ Range(order) = DOMAIN graphs

\* the state holds the order and the graphs in agreement
C37_OrderMatchesGraphsNow == OrderMatchesGraphs(ping_order, ping_graphs)

\* C37: in every reachable state ping_order holds no address twice and holds
\* exactly the keys of ping_graphs, and this stays so when the route discovery
\* under way returns a route on which one address appears at more than one hop
C37_OrderMatchesGraphs ==
    /\ C37_OrderMatchesGraphsNow
    /\ \A t \in BagToSet(tracers), hops \in RepeatedHops :
           LET a == ResultOf(t, hops)
           IN OrderMatchesGraphs(a.ping_order, a.ping_graphs)

-----------------------------------------------------------------------------
(* C38: samples and round timestamps *)

\* C38: in every reachable state a tracked host holds no more samples than
\* there are round timestamps, so that the timestamp lookup of the hover,
\* ping_timestamps[i], is in range for every index i of the host's series
C38_NoMoreSamplesThanRounds ==
    \A host \in DOMAIN ping_graphs :
        /\ Len(ping_graphs[host].pings) <= Len(ping_timestamps)
        /\ \A x \in 0..(canvas_width - 1) :
               LET label == on_mouse_move(ping_graphs[host], x, canvas_width,
                                          ping_timestamps).info_label
               IN label.mode = "hover" => label.time # -1


-----------------------------------------------------------------------------
(* C39: one round timer *)

\* C39: at most one round timer is pending in any state, and it is the one
\* whose handle is stored; none is pending while the stop event is set: two
\* chains of round ticks never coexist
C39_OneRoundTimer ==
    /\ Cardinality(after_ticks) <= 1
    /\ after_ticks \subseteq {scheduled_ping_after_id}
    /\ scheduled_ping_after_id # 0 => after_ticks = {scheduled_ping_after_id}
    /\ stop_event => after_ticks = {}

\* two route discovery results were applied in one session: the second one
\* started a round of its own, cancelled the timer the first had set and set
\* the one that is pending
C39_Witness ==
    /\ running
    /\ Len(ping_order) > Cardinality(DOMAIN ping_graphs)
    /\ ping_round_index = 2
    /\ next_after_id = 3
    /\ after_ticks = {2}


-----------------------------------------------------------------------------
(* C40: what running implies *)

\* C40: in every reachable state, running implies that the stop event is not
\* set and that at least one host is tracked; the stop event being set, or no
\* host being tracked, implies that the session is not running; this stays so
\* whatever route the discovery under way returns
C40_RunningImpliesHosts ==
    /\ running => ( ~stop_event /\ DOMAIN ping_graphs # {} )
    /\ ( stop_event \/ DOMAIN ping_graphs = {} ) => ~running
    /\ \A t \in BagToSet(tracers), hops \in HopResults \cup FailedHops \cup RepeatedHops :
           LET a == ResultOf(t, hops)
           IN a.running => ( ~a.stop_event /\ DOMAIN a.ping_graphs # {} )

\* a session running its rounds after an earlier one was stopped
C40_Witness ==
    /\ running
    /\ ~stop_event
    /\ DOMAIN ping_graphs # {}
    /\ ping_round_index = 1
    /\ ping_timestamps[1] > 0

=============================================================================
